---- MODULE Spec2Model ----
(***************************************************************************)
(* Rule evaluation engine of the Invest Europe / Reframe Venture validator *)
(* (validate_metrics_by_company, validate_metrics_by_fund,                 *)
(* validate_metrics_by_gp): classification of every metric of the report   *)
(* type's universe into buckets, the pass over special_relations, and the  *)
(* aggregation into the Summary.                                           *)
(*                                                                         *)
(* Strings that the code parses, compares character-wise or concatenates   *)
(* (raw values, units, labels) are sequences of one-character strings, so  *)
(* that str.isnumeric, int(), float() and f-string concatenation are       *)
(* computed, not assumed.  Compound ids and status codes are only ever     *)
(* compared for equality and are plain strings.                            *)
(***************************************************************************)
EXTENDS Integers, Sequences, FiniteSets, TLC

VARIABLES
    kind,          \* which entry point runs: "company" | "fund" | "gp"
    metrics,       \* company_data["metrics"]: compound_id -> raw value
    status,        \* company_data["status"]:  compound_id -> status code
    glob,          \* process-wide lists: MINIMUM_METRICS, INTERMEDIATE_METRICS,
                   \* FULL_METRICS, and REQUIRED_FUND_METRICS / REQUIRED_GP_METRICS
    pc,            \* "classify" | "relate" | "aggregate" | "done"
    idx,           \* position in the universe list / in special_relations
    level,         \* the Python local `level` (survives loop iterations)
    valid_lines,
    error_lines,
    unknown_lines,
    blank_lines,
    recommended_but_missing_lines,
    missing_metrics,
    warning_lines,
    tiers,         \* the locals minimum / intermediate / full / required
    summary,       \* the returned dict, or the exception that escaped
    run,           \* how many times the entry point was called on this dataset
    history,       \* the Summaries of the earlier calls
    sibling,       \* a second call in progress in another thread: its dataset,
                   \* its position and its locals while the thread is not running
    files,         \* request.files.getlist('files[]') of upload_files
    all_companies_data,  \* the datasets read so far, in insertion order
    file_errors,   \* the list `errors` of upload_files: per-file error strings
    response,      \* what upload_files returns
    call,          \* a call of one of the helper functions: its name and arguments
    result         \* what the call returned, or the exception it raised

vars == <<kind, metrics, status, glob, pc, idx, level, valid_lines, error_lines,
          unknown_lines, blank_lines, recommended_but_missing_lines,
          missing_metrics, warning_lines, tiers, summary, run, history,
          sibling, files, all_companies_data, file_errors, response, call, result>>

\* the state of upload_files
upload == <<files, all_companies_data, file_errors, response>>

\* the state of a call of a helper function on its own
helper == <<call, result>>

(***************************************************************************)
(* Bounds                                                                  *)
(***************************************************************************)
\* calls of one entry point in succession on the same dataset
MaxRuns == 2

\* files in one upload request
MaxFiles == 3

(***************************************************************************)
(* Character strings                                                       *)
(***************************************************************************)
Digits == <<"0", "1", "2", "3", "4", "5", "6", "7", "8", "9">>

IsDigit(c) == \E d \in 1..10 : Digits[d] = c

DigitVal(c) == (CHOOSE d \in 1..10 : Digits[d] = c) - 1

\* SUPERSCRIPT TWO: a character with the Unicode property Numeric_Type=Digit
\* that is no decimal digit; it stands for the characters that
\* str.isnumeric() accepts and int() rejects
SuperscriptTwo == "²"

\* str.isnumeric(): non-empty and every character numeric
isnumeric(s) ==
    Len(s) > 0 /\ \A k \in 1..Len(s) : IsDigit(s[k]) \/ s[k] = SuperscriptTwo

RECURSIVE IntOf(_)
\* int(s) for a string of decimal digits
IntOf(s) == IF Len(s) = 0 THEN 0
            ELSE 10 * IntOf(SubSeq(s, 1, Len(s) - 1)) + DigitVal(s[Len(s)])

RECURSIVE Pow10(_)
Pow10(k) == IF k = 0 THEN 1 ELSE 10 * Pow10(k - 1)

HasSign(s) == Len(s) > 0 /\ s[1] \in {"-", "+"}

Unsigned(s) == IF HasSign(s) THEN SubSeq(s, 2, Len(s)) ELSE s

DotAt(s) == IF \E k \in 1..Len(s) : s[k] = "."
            THEN CHOOSE k \in 1..Len(s) : s[k] = "." /\ \A j \in 1..(k - 1) : s[j] # "."
            ELSE 0

IntPart(s) == IF DotAt(s) = 0 THEN s ELSE SubSeq(s, 1, DotAt(s) - 1)

FracPart(s) == IF DotAt(s) = 0 THEN <<>> ELSE SubSeq(s, DotAt(s) + 1, Len(s))

AllDigits(s) == \A k \in 1..Len(s) : IsDigit(s[k])

\* is_float: float(value) does not raise ValueError.  Decimal literals
\* [sign] digits [. digits] | [sign] . digits  (exponents, inf and nan lie
\* outside the alphabet of the value pools)
is_float(s) ==
    LET u == Unsigned(s)
    IN  /\ AllDigits(IntPart(u))
        /\ AllDigits(FracPart(u))
        /\ Len(IntPart(u)) + Len(FracPart(u)) > 0

\* typed values: Python int, float (an exact decimal num/den) and str
TInt(n) == [t |-> "int", num |-> n, den |-> 1, s |-> <<>>]

TFloat(n, d) == [t |-> "float", num |-> n, den |-> d, s |-> <<>>]

TStr(s) == [t |-> "str", num |-> 0, den |-> 1, s |-> s]

NoValue == [t |-> "absent", num |-> 0, den |-> 1, s |-> <<>>]

\* int(value) raised: "invalid literal for int() with base 10"
ValueError == [t |-> "ValueError", num |-> 0, den |-> 1, s |-> <<>>]

\* float(s) for a string accepted by is_float
FloatOf(s) ==
    LET u == Unsigned(s)
        n == IntOf(IntPart(u) \o FracPart(u))
    IN  TFloat(IF HasSign(s) /\ s[1] = "-" THEN 0 - n ELSE n, Pow10(Len(FracPart(u))))

IsNumber(v) == v.t \in {"int", "float"}

\* a >= c for a typed number a and an integer c
NumGeq(a, c) == a.num >= c * a.den

NumLeq(a, c) == a.num <= c * a.den

(***************************************************************************)
(* Type coercion                                                           *)
(***************************************************************************)
\* the schema entry of an id missing from the schema: schema.get(id, {})
NoEntry == [type |-> "none", hasAllowed |-> FALSE, allowed |-> {},
            hasMin |-> FALSE, min |-> 0, hasMax |-> FALSE, max |-> 0]

SchemaGet(schema, compound_id) ==
    IF compound_id \in DOMAIN schema THEN schema[compound_id] ELSE NoEntry

get_typed_value(schema, value, compound_id) ==
    IF SchemaGet(schema, compound_id).type = "integer" /\ isnumeric(value)
    THEN IF AllDigits(value) THEN TInt(IntOf(value)) ELSE ValueError
    ELSE IF SchemaGet(schema, compound_id).type = "float" /\ is_float(value)
    THEN FloatOf(value)
    ELSE TStr(value)

(***************************************************************************)
(* Words of the configuration and of the value pools                       *)
(***************************************************************************)
Empty == <<>>

Yes == <<"y", "e", "s">>

No == <<"n", "o">>

Maybe == <<"m", "a", "y", "b", "e">>

Eur == <<"E", "U", "R">>

Text == <<"t", "x", "t">>

UnitFtes == <<"F", "T", "E", "s">>

UnitPeople == <<"p", "e", "o", "p", "l", "e">>

UnitPercent == <<"%">>

UnitIncidents == <<"i", "n", "c", "i", "d", "e", "n", "t", "s">>

UnitCurrency == <<"c", "u", "r", "r", "e", "n", "c", "y">>

LabelYes == <<"Y", "e", "s">>

LabelNo == <<"N", "o">>

(***************************************************************************)
(* Schema entries                                                          *)
(***************************************************************************)
StringEntry == [type |-> "string", hasAllowed |-> FALSE, allowed |-> {},
                hasMin |-> FALSE, min |-> 0, hasMax |-> FALSE, max |-> 0]

YesNoEntry == [type |-> "string", hasAllowed |-> TRUE, allowed |-> {Yes, No},
               hasMin |-> FALSE, min |-> 0, hasMax |-> FALSE, max |-> 0]

CountEntry == [type |-> "integer", hasAllowed |-> FALSE, allowed |-> {},
               hasMin |-> TRUE, min |-> 0, hasMax |-> FALSE, max |-> 0]

AmountEntry == [type |-> "float", hasAllowed |-> FALSE, allowed |-> {},
                hasMin |-> TRUE, min |-> 0, hasMax |-> FALSE, max |-> 0]

PercentEntry == [type |-> "float", hasAllowed |-> FALSE, allowed |-> {},
                 hasMin |-> TRUE, min |-> 0, hasMax |-> TRUE, max |-> 100]

(***************************************************************************)
(* GP configuration (validation_mappings/schema_gp.py), restricted to the  *)
(* ids that the modelled relations mention; list order is the source's     *)
(***************************************************************************)
SCHEMA_GP ==
    [id \in {"use_of_international_disclosing_standard",
             "use_of_international_disclosing_standard_tcfd",
             "number_of_esg_incidents",
             "qualitative_info_esg_incidents",
             "total_number_of_partners",
             "number_of_partners_female"} |->
        CASE id = "use_of_international_disclosing_standard" -> YesNoEntry
          [] id = "use_of_international_disclosing_standard_tcfd" -> YesNoEntry
          [] id = "number_of_esg_incidents" -> CountEntry
          [] id = "qualitative_info_esg_incidents" -> StringEntry
          [] id = "total_number_of_partners" -> CountEntry
          [] id = "number_of_partners_female" -> CountEntry]

GP_COMPOUND_ID_UNITS ==
    [id \in {"number_of_esg_incidents", "total_number_of_partners",
             "number_of_partners_female"} |->
        IF id = "number_of_esg_incidents" THEN UnitIncidents ELSE UnitPeople]

ALL_GP_METRICS ==
    << "use_of_international_disclosing_standard",
       "use_of_international_disclosing_standard_tcfd",
       "number_of_esg_incidents",
       "qualitative_info_esg_incidents",
       "total_number_of_partners",
       "number_of_partners_female" >>

REQUIRED_GP_METRICS ==
    << "use_of_international_disclosing_standard",
       "number_of_esg_incidents",
       "qualitative_info_esg_incidents",
       "total_number_of_partners",
       "number_of_partners_female" >>

\* OPTIONS_GP (validation_mappings/options_gp.py): label dictionaries
OPTIONS_GP == << [v \in {Yes, No} |-> IF v = Yes THEN LabelYes ELSE LabelNo] >>

(***************************************************************************)
(* Fund configuration (validation_mappings/schema_fund.py, options_fund.py)*)
(***************************************************************************)
SCHEMA_FUND ==
    [id \in {"fund_name", "adhere_to_ungc", "no_ungc_explanation",
             "total_number_of_partners", "number_of_partners_female",
             "number_of_partners_male"} |->
        CASE id = "fund_name" -> StringEntry
          [] id = "adhere_to_ungc" -> YesNoEntry
          [] id = "no_ungc_explanation" -> StringEntry
          [] OTHER -> CountEntry]

FUND_COMPOUND_ID_UNITS ==
    [id \in {"total_number_of_partners", "number_of_partners_female",
             "number_of_partners_male"} |-> UnitPeople]

ALL_FUND_METRICS ==
    << "fund_name", "adhere_to_ungc", "no_ungc_explanation",
       "total_number_of_partners", "number_of_partners_female",
       "number_of_partners_male" >>

REQUIRED_FUND_METRICS ==
    << "fund_name", "adhere_to_ungc", "total_number_of_partners",
       "number_of_partners_female", "number_of_partners_male" >>

OPTIONS_FUND == << [v \in {Yes, No} |-> IF v = Yes THEN LabelYes ELSE LabelNo] >>

(***************************************************************************)
(* Company configuration (validation_mappings/minimum_intermediate.py,     *)
(* schema.py, options.py)                                                  *)
(***************************************************************************)
SCHEMA_PORTCO ==
    [id \in {"currency", "total_ftes_end_of_report_year",
             "number_of_ftes_end_of_report_year_female",
             "number_of_ftes_end_of_report_year_male",
             "tobacco_activities", "percentage_turnover_tobacco_activities",
             "sustainability_responsibility_none",
             "sustainability_responsibility_cfo", "gross_revenue"} |->
        CASE id = "currency" -> StringEntry
          [] id = "total_ftes_end_of_report_year" -> CountEntry
          [] id = "number_of_ftes_end_of_report_year_female" -> CountEntry
          [] id = "number_of_ftes_end_of_report_year_male" -> CountEntry
          [] id = "percentage_turnover_tobacco_activities" -> PercentEntry
          [] id = "gross_revenue" -> AmountEntry
          [] OTHER -> YesNoEntry]

COMPOUND_ID_UNITS ==
    [id \in {"total_ftes_end_of_report_year",
             "number_of_ftes_end_of_report_year_female",
             "number_of_ftes_end_of_report_year_male",
             "percentage_turnover_tobacco_activities", "gross_revenue"} |->
        CASE id = "percentage_turnover_tobacco_activities" -> UnitPercent
          [] id = "gross_revenue" -> UnitCurrency
          [] OTHER -> UnitFtes]

ALL_METRICS ==
    << "currency", "total_ftes_end_of_report_year",
       "number_of_ftes_end_of_report_year_female",
       "number_of_ftes_end_of_report_year_male",
       "tobacco_activities", "percentage_turnover_tobacco_activities",
       "sustainability_responsibility_none",
       "sustainability_responsibility_cfo", "gross_revenue" >>

MINIMUM_METRICS ==
    << "currency", "total_ftes_end_of_report_year", "tobacco_activities" >>

INTERMEDIATE_METRICS ==
    << "sustainability_responsibility_none", "sustainability_responsibility_cfo" >>

FULL_METRICS ==
    << "number_of_ftes_end_of_report_year_female",
       "number_of_ftes_end_of_report_year_male", "gross_revenue" >>

OPTIONAL_METRICS == << "percentage_turnover_tobacco_activities" >>

OPTIONS == << [v \in {Yes, No} |-> IF v = Yes THEN LabelYes ELSE LabelNo] >>

(***************************************************************************)
(* Line records.  `keys` is the key set of the Python dict; a field that   *)
(* is not among the keys holds its placeholder.                            *)
(***************************************************************************)
\* requirement_level strings; an f-string keeps its interpolated parts
LevelName(name) == [tag |-> name, ids |-> <<>>, val |-> <<>>]

Unbound == LevelName("<unbound local>")

\* f"Strongly recommended because '{condition_id}' is '{condition_value}'"
BecauseCondition(condition_id, condition_value) ==
    [tag |-> "Strongly recommended because 'condition_id' is 'condition_value'",
     ids |-> <<condition_id>>, val |-> condition_value]

\* the same string followed by a comma: a one-element tuple
BecauseConditionTuple(condition_id, condition_value) ==
    [tag |-> "(Strongly recommended because 'condition_id' is 'condition_value',)",
     ids |-> <<condition_id>>, val |-> condition_value]

\* f"Strongly recommended because at least one value is provided for {', '.join(condition_ids)}"
BecauseValues(condition_ids) ==
    [tag |-> "Strongly recommended because at least one value is provided for condition_ids",
     ids |-> condition_ids, val |-> <<>>]

\* reason / error_notes / warning_notes
Note(text) == [text |-> text, ids |-> <<>>, val |-> <<>>, nums |-> <<>>]

NoteWith(text, ids, val, nums) == [text |-> text, ids |-> ids, val |-> val, nums |-> nums]

Line(keys, compound_id, raw_value, interpreted_value, requirement_level, note) ==
    [keys |-> keys, compound_id |-> compound_id, raw_value |-> raw_value,
     interpreted_value |-> interpreted_value,
     requirement_level |-> requirement_level, note |-> note]

\* {"compound_id", "requirement_level", "reason"}
ReasonLine(compound_id, requirement_level, reason) ==
    Line({"compound_id", "requirement_level", "reason"}, compound_id, NoValue,
         <<>>, requirement_level, reason)

\* [line for line in lines if line["compound_id"] != compound_id]
RECURSIVE Without(_, _)
Without(lines, compound_id) ==
    IF lines = <<>> THEN <<>>
    ELSE IF Head(lines).compound_id # compound_id
         THEN <<Head(lines)>> \o Without(Tail(lines), compound_id)
         ELSE Without(Tail(lines), compound_id)

\* x in list
InList(x, list) == \E k \in 1..Len(list) : list[k] = x

Ids(lines) == {lines[k].compound_id : k \in 1..Len(lines)}

Count(lines, compound_id) ==
    Cardinality({k \in 1..Len(lines) : lines[k].compound_id = compound_id})

(***************************************************************************)
(* cerberus Validator({compound_id: entry}).validate({compound_id: value}) *)
(***************************************************************************)
TypeOk(entry, v) ==
    CASE entry.type = "integer" -> v.t = "int"
      [] entry.type = "float" -> v.t \in {"float", "int"}
      [] entry.type = "string" -> v.t = "str"
      [] OTHER -> TRUE

\* validator.errors: the rules that failed (a failed type rule drops the rest)
ValidatorErrors(entry, v) ==
    IF ~TypeOk(entry, v) THEN <<"type">>
    ELSE (IF entry.hasAllowed /\ ~(v.t = "str" /\ v.s \in entry.allowed)
          THEN <<"allowed">> ELSE <<>>)
         \o (IF entry.hasMin /\ IsNumber(v) /\ ~NumGeq(v, entry.min)
             THEN <<"min">> ELSE <<>>)
         \o (IF entry.hasMax /\ IsNumber(v) /\ ~NumLeq(v, entry.max)
             THEN <<"max">> ELSE <<>>)

(***************************************************************************)
(* Value interpreter                                                       *)
(***************************************************************************)
RECURSIVE LabelFrom(_, _, _, _)
\* for options_key, options_dict in OPTIONS.items(): the first dictionary
\* whose keys include the allowed values and that has a label for the value
LabelFrom(options, allowed, value, k) ==
    IF k > Len(options) THEN value
    ELSE IF allowed \subseteq DOMAIN options[k] /\ value \in DOMAIN options[k]
              /\ options[k][value] # <<>>
         THEN options[k][value]
         ELSE LabelFrom(options, allowed, value, k + 1)

get_interpreted_value(schema, options, value, compound_id) ==
    IF compound_id \in DOMAIN schema /\ schema[compound_id].hasAllowed
       /\ schema[compound_id].allowed # {}
    THEN LabelFrom(options, schema[compound_id].allowed, value, 1)
    ELSE value

get_interpreted_value_portco(value, compound_id) ==
    get_interpreted_value(SCHEMA_PORTCO, OPTIONS, value, compound_id)

get_interpreted_value_fund(value, compound_id) ==
    get_interpreted_value(SCHEMA_FUND, OPTIONS_FUND, value, compound_id)

get_interpreted_value_gp(value, compound_id) ==
    get_interpreted_value(SCHEMA_GP, OPTIONS_GP, value, compound_id)

\* f"{interpreted_value} {unit}"
\* the unit in front of the value
WithUnitInFront(interpreted_value, unit) == unit \o <<" ">> \o interpreted_value

WithUnit(interpreted_value, unit) == interpreted_value \o <<" ">> \o unit

get_interpreted_value_portco_with_units(value, compound_id, currency_unit) ==
    LET interpreted_value == get_interpreted_value_portco(value, compound_id)
    IN  IF compound_id \in DOMAIN COMPOUND_ID_UNITS
        THEN IF COMPOUND_ID_UNITS[compound_id] = UnitCurrency
             THEN WithUnit(interpreted_value, currency_unit)
             ELSE WithUnit(interpreted_value, COMPOUND_ID_UNITS[compound_id])
        ELSE interpreted_value

get_interpreted_value_fund_with_units(value, compound_id) ==
    LET interpreted_value == get_interpreted_value_fund(value, compound_id)
    IN  IF compound_id \in DOMAIN FUND_COMPOUND_ID_UNITS
        THEN WithUnit(interpreted_value, FUND_COMPOUND_ID_UNITS[compound_id])
        ELSE interpreted_value

get_interpreted_value_gp_with_units(value, compound_id) ==
    LET interpreted_value == get_interpreted_value_gp(value, compound_id)
    IN  IF compound_id \in DOMAIN GP_COMPOUND_ID_UNITS
        THEN WithUnit(interpreted_value, GP_COMPOUND_ID_UNITS[compound_id])
        ELSE interpreted_value

(***************************************************************************)
(* Metric classifier.  L is the record of the function's locals.           *)
(***************************************************************************)
NotApplicableOrAvailable == {"not_applicable", "not_available"}

\* company_statuses.get(compound_id, "")
StatusGet(st, compound_id) == IF compound_id \in DOMAIN st THEN st[compound_id] ELSE ""

\* company_metrics.get(compound_id): None when absent
Truthy(m, compound_id) == compound_id \in DOMAIN m /\ m[compound_id] # <<>>

ValueIs(m, compound_id, value) == compound_id \in DOMAIN m /\ m[compound_id] = value

Raise(L, exception) == [L EXCEPT !.fault = exception]

FteIntermediate == 15

FteFull == 250

\* "Minimum" if compound_id in MINIMUM_METRICS else "Intermediate" if ... else other
StaticLevel(g, compound_id, other) ==
    IF InList(compound_id, g.minimum) THEN LevelName("Minimum")
    ELSE IF InList(compound_id, g.intermediate) THEN LevelName("Intermediate")
    ELSE IF InList(compound_id, g.full) THEN LevelName("Full")
    ELSE LevelName(other)

StatusReason(st) ==
    IF st = "not_applicable" THEN Note("Marked as not applicable in import file")
    ELSE Note("Marked as not available in import file")

\* total_fte_number >= 15 / >= 250: comparing a str with an int is a TypeError
\* a threshold that the threshold value itself does not reach
FteAbove(total_fte_number, threshold) == ~NumLeq(total_fte_number, threshold)

FteAtLeast(total_fte_number, threshold) == NumGeq(total_fte_number, threshold)

\* the not_applicable / not_available branch of validate_metrics_by_company
ClassifyExempted(L, m, st, compound_id, lvl) ==
    LET reason == StatusReason(st)
        L1 == [L EXCEPT !.level = lvl]
        rbm(text) == [L1 EXCEPT !.recommended_but_missing_lines =
                        Append(@, ReasonLine(compound_id, lvl, Note(text)))]
        blank == [L1 EXCEPT !.blank_lines =
                        Append(@, ReasonLine(compound_id, lvl, reason))]
    IN  IF "total_ftes_end_of_report_year" \notin DOMAIN m
        THEN Raise(L1, "KeyError: 'total_ftes_end_of_report_year'")
        ELSE IF m["total_ftes_end_of_report_year"] # <<>>
        THEN LET total_fte_number ==
                    get_typed_value(SCHEMA_PORTCO, m["total_ftes_end_of_report_year"],
                                    "total_ftes_end_of_report_year")
             IN  IF total_fte_number = ValueError
                 THEN Raise(L1, "ValueError: invalid literal for int() with base 10")
                 ELSE
                 CASE lvl = LevelName("Minimum") ->
                        rbm("Status is 'not_applicable' or 'not_available', but this is a 'minimum' metric.")
                   [] lvl = LevelName("Intermediate") ->
                        IF ~IsNumber(total_fte_number)
                        THEN Raise(L1, "TypeError: '>=' not supported between instances of 'str' and 'int'")
                        ELSE IF FteAtLeast(total_fte_number, FteIntermediate)
                        THEN rbm("Status is 'not_applicable' or 'not_available', but this is an 'intermediate' metric for companies with FTE higher than 15.")
                        ELSE blank
                   [] lvl = LevelName("Full") ->
                        IF ~IsNumber(total_fte_number)
                        THEN Raise(L1, "TypeError: '>=' not supported between instances of 'str' and 'int'")
                        ELSE IF FteAtLeast(total_fte_number, FteFull)
                        THEN rbm("Status is 'not_applicable' or 'not_available', but all metrics are strongly recommended for companies with FTE higher than 250.")
                        ELSE blank
                   [] OTHER -> L1
        ELSE IF lvl = LevelName("Minimum")
             THEN rbm("Status is 'not_applicable' or 'not_available', but this is a 'minimum' metric.")
             ELSE rbm("Status is 'not_applicable' or 'not_available'. Unknown level of requirement for this company since total_ftes_end_of_report_year is not provided.")

BlankButProvided(compound_id, raw_value) ==
    Line({"compound_id", "raw_value", "error_notes"}, compound_id, TStr(raw_value),
         <<>>, Unbound, Note("Value is blank but marked as 'provided'."))

\* the record of the final else: it reads the local `level`
UnknownStatusLine(compound_id, raw_value, st, lvl) ==
    Line({"compound_id", "raw_value", "error_notes", "requirement_level"}, compound_id,
         TStr(raw_value), <<>>, lvl,
         NoteWith("Unknown value in 'STATUS' column: {status}.", <<st>>, <<>>, <<>>))

\* one iteration of `for compound_id in ALL_METRICS`
ClassifyCompanyMetric(L, m, st, g, compound_id) ==
    IF compound_id \notin DOMAIN m
    THEN LET lvl == StaticLevel(g, compound_id, "Value not required (optional)")
         IN  [L EXCEPT !.level = lvl,
                       !.missing_metrics = Append(@,
                           ReasonLine(compound_id, lvl, Note("Not in import file at all")))]
    ELSE LET raw_value == m[compound_id]
             stat == StatusGet(st, compound_id)
         IN  IF stat \in NotApplicableOrAvailable
             THEN ClassifyExempted(L, m, stat, compound_id,
                                   StaticLevel(g, compound_id, "Value not required"))
             ELSE IF raw_value = <<>> /\ stat = "provided"
             THEN [L EXCEPT !.error_lines = Append(@, BlankButProvided(compound_id, raw_value))]
             ELSE IF stat = "provided"
             THEN IF get_typed_value(SCHEMA_PORTCO, raw_value, compound_id) = ValueError
                  THEN Raise(L, "ValueError: invalid literal for int() with base 10")
                  ELSE IF "currency" \notin DOMAIN m
                  THEN Raise(L, "KeyError: 'currency'")
                  ELSE LET typed_value == get_typed_value(SCHEMA_PORTCO, raw_value, compound_id)
                           interpreted_value ==
                               get_interpreted_value_portco_with_units(
                                   raw_value, compound_id, m["currency"])
                           errors == ValidatorErrors(SchemaGet(SCHEMA_PORTCO, compound_id),
                                                     typed_value)
                           lvl == StaticLevel(g, compound_id, "Value not required")
                       IN  IF errors = <<>>
                           THEN [L EXCEPT !.level = lvl,
                                   !.valid_lines = Append(@,
                                     Line({"compound_id", "raw_value", "interpreted_value",
                                           "requirement_level"},
                                          compound_id, typed_value, interpreted_value, lvl,
                                          Note("")))]
                           ELSE [L EXCEPT !.level = lvl,
                                   !.error_lines = Append(@,
                                     Line({"compound_id", "raw_value", "error_notes",
                                           "requirement_level"},
                                          compound_id, TStr(raw_value), <<>>, lvl,
                                          NoteWith("str(validator.errors)", errors, <<>>, <<>>)))]
             ELSE IF L.level = Unbound
                  THEN Raise(L, "UnboundLocalError: 'level'")
                  ELSE [L EXCEPT !.error_lines = Append(@,
                            UnknownStatusLine(compound_id, raw_value, stat, L.level))]

\* "Strongly recommended" if compound_id in REQUIRED_FUND_METRICS else "Value not required"
RequiredLevel(g, compound_id) ==
    IF InList(compound_id, g.required) THEN LevelName("Strongly recommended")
    ELSE LevelName("Value not required")

InterpretWithUnits(k, value, compound_id) ==
    IF k = "fund" THEN get_interpreted_value_fund_with_units(value, compound_id)
    ELSE get_interpreted_value_gp_with_units(value, compound_id)

SchemaOf(k) ==
    CASE k = "company" -> SCHEMA_PORTCO
      [] k = "fund" -> SCHEMA_FUND
      [] OTHER -> SCHEMA_GP

\* one iteration of `for compound_id in ALL_FUND_METRICS` / `in ALL_GP_METRICS`
ClassifyRequiredMetric(k, L, m, st, g, compound_id) ==
    IF compound_id \notin DOMAIN m
    THEN LET lvl == RequiredLevel(g, compound_id)
         IN  [L EXCEPT !.level = lvl,
                       !.missing_metrics = Append(@,
                           ReasonLine(compound_id, lvl, Note("Not in import file at all")))]
    ELSE LET raw_value == m[compound_id]
             stat == StatusGet(st, compound_id)
             lvl == RequiredLevel(g, compound_id)
         IN  IF stat \in NotApplicableOrAvailable
             THEN IF lvl = LevelName("Strongly recommended")
                  THEN [L EXCEPT !.level = lvl,
                          !.recommended_but_missing_lines = Append(@,
                             ReasonLine(compound_id, lvl,
                               Note("Status is 'not_applicable' or 'not_available', but this is a strongly recommended metric.")))]
                  ELSE [L EXCEPT !.level = lvl,
                          !.blank_lines = Append(@,
                             ReasonLine(compound_id, lvl, StatusReason(stat)))]
             ELSE IF raw_value = <<>> /\ stat = "provided"
             THEN [L EXCEPT !.error_lines = Append(@, BlankButProvided(compound_id, raw_value))]
             ELSE IF stat = "provided"
             THEN LET typed_value == get_typed_value(SchemaOf(k), raw_value, compound_id)
                      interpreted_value == InterpretWithUnits(k, raw_value, compound_id)
                      errors == ValidatorErrors(SchemaGet(SchemaOf(k), compound_id), typed_value)
                  IN  IF typed_value = ValueError
                      THEN Raise(L, "ValueError: invalid literal for int() with base 10")
                      ELSE IF errors = <<>>
                      THEN [L EXCEPT !.valid_lines = Append(@,
                              Line({"compound_id", "raw_value", "interpreted_value"},
                                   compound_id, typed_value, interpreted_value, Unbound,
                                   Note("")))]
                      ELSE [L EXCEPT !.error_lines = Append(@,
                              Line({"compound_id", "raw_value", "error_notes"},
                                   compound_id, TStr(raw_value), <<>>, Unbound,
                                   NoteWith("str(validator.errors)", errors, <<>>, <<>>)))]
             ELSE [L EXCEPT !.error_lines = Append(@,
                      Line({"compound_id", "raw_value", "error_notes"},
                           compound_id, TStr(raw_value), <<>>, Unbound,
                           NoteWith("Unknown value in 'STATUS' column: {status}.",
                                    <<stat>>, <<>>, <<>>)))]

ClassifyFundMetric(L, m, st, g, compound_id) ==
    ClassifyRequiredMetric("fund", L, m, st, g, compound_id)

ClassifyGpMetric(L, m, st, g, compound_id) ==
    ClassifyRequiredMetric("gp", L, m, st, g, compound_id)

(***************************************************************************)
(* special_relations: the four rule shapes, told apart by their keys       *)
(***************************************************************************)
Rule(rk) == [rk |-> rk, condition_id |-> "", condition_value |-> <<>>,
             dependent_ids |-> <<>>, condition_ids |-> <<>>, total_field |-> "",
             conflict_trigger |-> "", conflict_trigger_value |-> <<>>,
             conflicting_fields |-> <<>>, component_fields |-> <<>>,
             tolerance_percent |-> 0]

\* {"condition_id": .., "condition_value": .., "dependent_ids": [..]}
Conditional(condition_id, condition_value, dependent_ids) ==
    [Rule("condition_id") EXCEPT !.condition_id = condition_id,
                                 !.condition_value = condition_value,
                                 !.dependent_ids = dependent_ids]

\* {"condition_ids": [..], "total_field": ..}
SubsetTotal(condition_ids, total_field) ==
    [Rule("condition_ids") EXCEPT !.condition_ids = condition_ids,
                                  !.total_field = total_field]

\* {"conflict_trigger": .., "conflict_trigger_value": .., "conflicting_fields": [..]}
Conflict(conflict_trigger, conflict_trigger_value, conflicting_fields) ==
    [Rule("conflict_trigger") EXCEPT !.conflict_trigger = conflict_trigger,
                                     !.conflict_trigger_value = conflict_trigger_value,
                                     !.conflicting_fields = conflicting_fields]

\* {"sum_check": True, "total_field": .., "component_fields": [..], "tolerance_percent": ..}
SumCheck(total_field, component_fields, tolerance_percent) ==
    [Rule("sum_check") EXCEPT !.total_field = total_field,
                              !.component_fields = component_fields,
                              !.tolerance_percent = tolerance_percent]

TolerancePercentFtes == 5

\* the rules of validate_metrics_by_company over the modelled ids, in source order
CompanyRelations ==
    << Conditional("tobacco_activities", Yes,
                   <<"percentage_turnover_tobacco_activities">>),
       SubsetTotal(<<"number_of_ftes_end_of_report_year_female",
                     "number_of_ftes_end_of_report_year_male">>,
                   "total_ftes_end_of_report_year"),
       Conflict("sustainability_responsibility_none", Yes,
                <<"sustainability_responsibility_cfo">>),
       SumCheck("total_ftes_end_of_report_year",
                <<"number_of_ftes_end_of_report_year_female",
                  "number_of_ftes_end_of_report_year_male">>, TolerancePercentFtes) >>

\* the rules of validate_metrics_by_fund over the modelled ids, in source order
FundRelations ==
    << Conditional("adhere_to_ungc", No, <<"no_ungc_explanation">>),
       SubsetTotal(<<"number_of_partners_female", "number_of_partners_male">>,
                   "total_number_of_partners") >>

\* the rules of validate_metrics_by_gp over the modelled ids, in source order
GpRelations ==
    << Conditional("use_of_international_disclosing_standard", Yes,
                   <<"use_of_international_disclosing_standard_tcfd">>),
       Conditional("number_of_esg_incidents", Yes,
                   <<"qualitative_info_esg_incidents">>),
       SubsetTotal(<<"number_of_partners_female">>, "total_number_of_partners") >>

(***************************************************************************)
(* Relation evaluator                                                      *)
(***************************************************************************)
\* the old record removed, the new one never appended
DropMissing(lines, compound_id, requirement_level, reason) ==
    Without(lines, compound_id)

\* missing_metrics = [.. != id]; missing_metrics.append({..})
\* the new record appended beside the old one
AppendMissing(lines, compound_id, requirement_level, reason) ==
    Append(lines, ReasonLine(compound_id, requirement_level, Note(reason)))

ReplaceMissing(lines, compound_id, requirement_level, reason) ==
    Append(Without(lines, compound_id),
           ReasonLine(compound_id, requirement_level, Note(reason)))

\* the flagged branch also withdraws the warning about the metric
EscalateClearingWarnings(L, m, st, compound_id, requirement_level, blankNeedsNoFlag) ==
    IF compound_id \notin DOMAIN m
    THEN [L EXCEPT !.missing_metrics =
                       ReplaceMissing(@, compound_id, requirement_level,
                                      "Not in import file at all"),
                   !.blank_lines = Without(@, compound_id)]
    ELSE IF m[compound_id] = <<>>
            /\ (blankNeedsNoFlag =>
                    StatusGet(st, compound_id) \notin NotApplicableOrAvailable)
    THEN [L EXCEPT !.missing_metrics =
                       ReplaceMissing(@, compound_id, requirement_level, "Value is blank"),
                   !.valid_lines = Without(@, compound_id),
                   !.blank_lines = Without(@, compound_id)]
    ELSE IF StatusGet(st, compound_id) \in NotApplicableOrAvailable
    THEN [L EXCEPT !.recommended_but_missing_lines =
                       Append(Without(@, compound_id),
                              ReasonLine(compound_id, requirement_level,
                                         Note("Marked as not_applicable or not_available"))),
                   !.blank_lines = Without(@, compound_id),
                   !.warning_lines = Without(@, compound_id)]
    ELSE L

\* the three branches shared by the subset-total rule and by one dependent
\* of a conditional rule.  blankNeedsNoFlag: the elif also asks that the
\* status is not not_applicable / not_available
Escalate(L, m, st, compound_id, requirement_level, blankNeedsNoFlag) ==
    IF compound_id \notin DOMAIN m
    THEN [L EXCEPT !.missing_metrics =
                       ReplaceMissing(@, compound_id, requirement_level,
                                      "Not in import file at all"),
                   !.blank_lines = Without(@, compound_id)]
    ELSE IF m[compound_id] = <<>>
            /\ (blankNeedsNoFlag =>
                    StatusGet(st, compound_id) \notin NotApplicableOrAvailable)
    THEN [L EXCEPT !.missing_metrics =
                       ReplaceMissing(@, compound_id, requirement_level, "Value is blank"),
                   !.valid_lines = Without(@, compound_id),
                   !.blank_lines = Without(@, compound_id)]
    ELSE IF StatusGet(st, compound_id) \in NotApplicableOrAvailable
    THEN [L EXCEPT !.recommended_but_missing_lines =
                       Append(Without(@, compound_id),
                              ReasonLine(compound_id, requirement_level,
                                         Note("Marked as not_applicable or not_available"))),
                   !.blank_lines = Without(@, compound_id)]
    ELSE L

\* any(company_metrics.get(condition_id) for condition_id in relation["condition_ids"])
AnyProvided(m, condition_ids) ==
    \E k \in 1..Len(condition_ids) : Truthy(m, condition_ids[k])

\* the `if "condition_ids" in relation` branch
ApplySubsetTotal(L, m, st, relation, blankNeedsNoFlag) ==
    IF AnyProvided(m, relation.condition_ids)
    THEN Escalate(L, m, st, relation.total_field,
                  BecauseValues(relation.condition_ids), blankNeedsNoFlag)
    ELSE L

ConflictLine(conflicting_field, trigger_field, trigger_value) ==
    Line({"compound_id", "raw_value", "error_notes"}, conflicting_field, TStr(Yes),
         <<>>, Unbound,
         NoteWith("Conflict: '{conflicting_field}' is 'yes' but '{trigger_field}' is also '{trigger_value}'.",
                  <<conflicting_field, trigger_field>>, trigger_value, <<>>))

\* the body of `if company_metrics.get(conflicting_field) == "yes"`
\* the error record appended, the valid record kept
AppendToError(L, conflicting_field, trigger_field, trigger_value) ==
    [L EXCEPT !.blank_lines = Without(@, conflicting_field),
              !.error_lines = Append(@, ConflictLine(conflicting_field, trigger_field,
                                                      trigger_value))]

MoveToError(L, conflicting_field, trigger_field, trigger_value) ==
    [L EXCEPT !.valid_lines = Without(@, conflicting_field),
              !.blank_lines = Without(@, conflicting_field),
              !.error_lines = Append(@, ConflictLine(conflicting_field, trigger_field,
                                                      trigger_value))]

RECURSIVE ConflictLoop(_, _, _, _)
\* for conflicting_field in conflicting_fields
ConflictLoop(L, m, relation, k) ==
    IF k > Len(relation.conflicting_fields) THEN L
    ELSE ConflictLoop(
            IF ValueIs(m, relation.conflicting_fields[k], Yes)
            THEN MoveToError(L, relation.conflicting_fields[k],
                             relation.conflict_trigger, relation.conflict_trigger_value)
            ELSE L,
            m, relation, k + 1)

\* the `elif "conflict_trigger" in relation` branch
ApplyConflict(L, m, relation) ==
    IF ValueIs(m, relation.conflict_trigger, relation.conflict_trigger_value)
    THEN ConflictLoop(L, m, relation, 1)
    ELSE L

Abs(x) == IF x < 0 THEN 0 - x ELSE x

\* component_sum += comp_value
NumAdd(a, b) ==
    [t |-> IF a.t = "float" \/ b.t = "float" THEN "float" ELSE "int",
     num |-> a.num * b.den + b.num * a.den, den |-> a.den * b.den, s |-> <<>>]

\* the values of the present numeric components, in component order
RECURSIVE ComponentsFound(_, _, _, _)
ComponentsFound(schema, m, component_fields, k) ==
    IF k > Len(component_fields) THEN <<>>
    ELSE LET comp_field == component_fields[k]
             rest == ComponentsFound(schema, m, component_fields, k + 1)
         IN  IF Truthy(m, comp_field)
                /\ IsNumber(get_typed_value(schema, m[comp_field], comp_field))
             THEN <<comp_field>> \o rest
             ELSE rest

\* get_typed_value raises on one of the present components
ComponentRaises(schema, m, component_fields) ==
    \E k \in 1..Len(component_fields) :
        /\ Truthy(m, component_fields[k])
        /\ get_typed_value(schema, m[component_fields[k]], component_fields[k]) = ValueError

RECURSIVE ComponentSum(_, _, _, _)
ComponentSum(schema, m, found, k) ==
    IF k = 0 THEN TInt(0)
    ELSE NumAdd(ComponentSum(schema, m, found, k - 1),
                get_typed_value(schema, m[found[k]], found[k]))

\* is_mismatch: total == 0 -> component_sum != 0;
\* otherwise abs(total - sum) > abs(total) * (tolerance_percent / 100)
\* a tolerance that the boundary itself exceeds
is_mismatch_inclusive(total_value, component_sum, tolerance_percent) ==
    IF total_value.num = 0
    THEN component_sum.num # 0
    ELSE Abs(total_value.num * component_sum.den - component_sum.num * total_value.den) * 100
            >= Abs(total_value.num) * component_sum.den * tolerance_percent

is_mismatch(total_value, component_sum, tolerance_percent) ==
    IF total_value.num = 0
    THEN component_sum.num # 0
    ELSE Abs(total_value.num * component_sum.den - component_sum.num * total_value.den) * 100
            > Abs(total_value.num) * component_sum.den * tolerance_percent

WarningLine(total_field, total_raw, total_value, found, component_sum, tolerance_percent) ==
    Line({"compound_id", "raw_value", "warning_notes"}, total_field, TStr(total_raw),
         <<>>, Unbound,
         NoteWith("Sum mismatch: '{total_field}' is {total_value}, but sum of [{components_found}] is {component_sum}. Difference exceeds {tolerance_percent}% tolerance.",
                  <<total_field>> \o found, <<>>,
                  <<total_value.num, total_value.den, component_sum.num,
                    component_sum.den, tolerance_percent>>))

\* a mismatch recorded as an error record
ApplySumCheckAsError(L, m, schema, relation) ==
    LET total_field == relation.total_field
    IN  IF ~Truthy(m, total_field) THEN L
        ELSE LET total_value == get_typed_value(schema, m[total_field], total_field)
                 found == ComponentsFound(schema, m, relation.component_fields, 1)
                 component_sum == ComponentSum(schema, m, found, Len(found))
             IN  IF \/ total_value = ValueError
                    \/ IsNumber(total_value)
                          /\ ComponentRaises(schema, m, relation.component_fields)
                 THEN Raise(L, "ValueError: invalid literal for int() with base 10")
                 ELSE IF IsNumber(total_value) /\ found # <<>>
                    /\ is_mismatch(total_value, component_sum, relation.tolerance_percent)
                 THEN [L EXCEPT !.error_lines = Append(@,
                          WarningLine(total_field, m[total_field], total_value, found,
                                      component_sum, relation.tolerance_percent))]
                 ELSE L

\* the `elif "sum_check" in relation` branch
ApplySumCheck(L, m, schema, relation) ==
    LET total_field == relation.total_field
    IN  IF ~Truthy(m, total_field) THEN L
        ELSE LET total_value == get_typed_value(schema, m[total_field], total_field)
                 found == ComponentsFound(schema, m, relation.component_fields, 1)
                 component_sum == ComponentSum(schema, m, found, Len(found))
             IN  IF \/ total_value = ValueError
                    \/ IsNumber(total_value)
                          /\ ComponentRaises(schema, m, relation.component_fields)
                 THEN Raise(L, "ValueError: invalid literal for int() with base 10")
                 ELSE IF IsNumber(total_value) /\ found # <<>>
                    /\ is_mismatch(total_value, component_sum, relation.tolerance_percent)
                 THEN [L EXCEPT !.warning_lines = Append(@,
                          WarningLine(total_field, m[total_field], total_value, found,
                                      component_sum, relation.tolerance_percent))]
                 ELSE L

\* obj = next((x for x in valid_lines if x["compound_id"] == dependent_id), None)
\* if obj: obj["requirement_level"] = f"...",
Annotate(lines, dependent_id, requirement_level) ==
    IF \E k \in 1..Len(lines) : lines[k].compound_id = dependent_id
    THEN LET first == CHOOSE k \in 1..Len(lines) :
                        /\ lines[k].compound_id = dependent_id
                        /\ \A j \in 1..(k - 1) : lines[j].compound_id # dependent_id
         IN  [lines EXCEPT ![first].requirement_level = requirement_level,
                           ![first].keys = @ \cup {"requirement_level"}]
    ELSE lines

\* if condition_id in minimum: minimum.append(dependent_id)  (and so on)
EscalateTier(t, condition_id, dependent_id) ==
    [t EXCEPT !.minimum = IF InList(condition_id, @) THEN Append(@, dependent_id) ELSE @,
              !.intermediate = IF InList(condition_id, @) THEN Append(@, dependent_id) ELSE @,
              !.full = IF InList(condition_id, @) THEN Append(@, dependent_id) ELSE @]

\* required.append(dependent_id)
ExtendRequired(t, dependent_id) == [t EXCEPT !.required = Append(@, dependent_id)]

\* one dependent of a triggered rule of validate_metrics_by_company
CompanyDependent(L, m, st, condition_id, condition_value, dependent_id) ==
    LET requirement_level == BecauseCondition(condition_id, condition_value)
        moved == Escalate(L, m, st, dependent_id, requirement_level, TRUE)
        checked ==
            IF dependent_id \in DOMAIN m
               /\ ~(m[dependent_id] = <<>>
                    /\ StatusGet(st, dependent_id) \notin NotApplicableOrAvailable)
               /\ StatusGet(st, dependent_id) \notin NotApplicableOrAvailable
            THEN [L EXCEPT !.valid_lines =
                    Annotate(@, dependent_id,
                             BecauseConditionTuple(condition_id, condition_value))]
            ELSE moved
    IN  [checked EXCEPT !.tiers = EscalateTier(@, condition_id, dependent_id)]

\* one dependent of a triggered rule of validate_metrics_by_fund / _gp
RequiredDependent(L, m, st, condition_id, condition_value, dependent_id) ==
    LET moved == Escalate(L, m, st, dependent_id,
                          BecauseCondition(condition_id, condition_value), TRUE)
    IN  [moved EXCEPT !.tiers = ExtendRequired(@, dependent_id)]

RECURSIVE DependentLoop(_, _, _, _, _, _)
\* for dependent_id in dependent_ids
DependentLoop(k, L, m, st, relation, n) ==
    IF n > Len(relation.dependent_ids) THEN L
    ELSE DependentLoop(k,
            IF k = "company"
            THEN CompanyDependent(L, m, st, relation.condition_id,
                                  relation.condition_value, relation.dependent_ids[n])
            ELSE RequiredDependent(L, m, st, relation.condition_id,
                                   relation.condition_value, relation.dependent_ids[n]),
            m, st, relation, n + 1)

\* the final `else` branch: a conditional requirement
ApplyConditional(k, L, m, st, relation) ==
    IF ValueIs(m, relation.condition_id, relation.condition_value)
    THEN DependentLoop(k, L, m, st, relation, 1)
    ELSE L

\* one iteration of `for relation in special_relations` of validate_metrics_by_company
ApplyCompanyRelation(L, m, st, relation) ==
    CASE relation.rk = "condition_ids" -> ApplySubsetTotal(L, m, st, relation, TRUE)
      [] relation.rk = "conflict_trigger" -> ApplyConflict(L, m, relation)
      [] relation.rk = "sum_check" -> ApplySumCheck(L, m, SCHEMA_PORTCO, relation)
      [] OTHER -> ApplyConditional("company", L, m, st, relation)

\* one iteration of the loop of validate_metrics_by_fund: its subset-total
\* elif tests only `fund_metrics[total_field] == ""`
ApplyFundRelation(L, m, st, relation) ==
    IF relation.rk = "condition_ids"
    THEN ApplySubsetTotal(L, m, st, relation, FALSE)
    ELSE ApplyConditional("fund", L, m, st, relation)

\* one iteration of the loop of validate_metrics_by_gp
ApplyGpRelation(L, m, st, relation) ==
    IF relation.rk = "condition_ids"
    THEN ApplySubsetTotal(L, m, st, relation, TRUE)
    ELSE ApplyConditional("gp", L, m, st, relation)

(***************************************************************************)
(* Report aggregator                                                       *)
(***************************************************************************)
\* round(n / d * 100, 2) in hundredths of a percent (round half to even)
RoundedPercent(n, d) ==
    LET q == (n * 10000) \div d
        r == (n * 10000) % d
    IN  IF 2 * r > d \/ (2 * r = d /\ q % 2 = 1) THEN q + 1 ELSE q

NoSummary ==
    [returned |-> FALSE, fault |-> "", valid_lines |-> 0, invalid_lines |-> 0,
     percent_min |-> 0, percent_rec |-> 0, percent_full |-> 0, percent_completion |-> 0,
     missing_minimum |-> 0, missing_intermediate |-> 0, missing_full |-> 0,
     correct_lines |-> <<>>, error_lines |-> <<>>, unknown_lines |-> <<>>,
     missing_metrics |-> <<>>, blank_lines |-> <<>>,
     recommended_but_missing_lines |-> <<>>, warning_lines |-> <<>>]

\* the exception leaves the entry point: no Summary is returned
Raised(exception) == [NoSummary EXCEPT !.fault = exception]

UniverseOf(k) ==
    CASE k = "company" -> ALL_METRICS
      [] k = "fund" -> ALL_FUND_METRICS
      [] OTHER -> ALL_GP_METRICS

RelationsOf(k) ==
    CASE k = "company" -> CompanyRelations
      [] k = "fund" -> FundRelations
      [] OTHER -> GpRelations

\* the keys of the dataset in file order: the universe ids, then the others
KeyOrder(k) == UniverseOf(k) \o <<"not_in_schema">>

\* no id reported as unknown
NoUnknownLines(keys, m, schema, n) == <<>>

RECURSIVE UnknownLines(_, _, _, _)
\* for compound_id in company_metrics.keys(): if compound_id not in schema
UnknownLines(keys, m, schema, n) ==
    IF n > Len(keys) THEN <<>>
    ELSE (IF keys[n] \in DOMAIN m /\ keys[n] \notin DOMAIN schema
          THEN << Line({"compound_id", "raw_value", "error_notes"}, keys[n],
                       TStr(m[keys[n]]), <<>>, Unbound, Note("Unknown compound ID")) >>
          ELSE <<>>)
         \o UnknownLines(keys, m, schema, n + 1)

CountIn(list, S) == Cardinality({n \in 1..Len(list) : list[n] \in S})

CountLevel(lines, names) ==
    Cardinality({n \in 1..Len(lines) : lines[n].requirement_level \in
                    {LevelName(name) : name \in names}})

CountListed(lines, list) ==
    Cardinality({n \in 1..Len(lines) : InList(lines[n].compound_id, list)})

\* the share of the tier's metrics that are missing or erroneous
TierPercentUnmet(tier_list, all_missing_ids) ==
    IF Len(tier_list) > 0
    THEN RoundedPercent(CountIn(tier_list, all_missing_ids), Len(tier_list))
    ELSE 0

\* percentages[level]
TierPercent(tier_list, all_missing_ids) ==
    IF Len(tier_list) > 0
    THEN RoundedPercent(Len(tier_list) - CountIn(tier_list, all_missing_ids),
                        Len(tier_list))
    ELSE 0

\* the tail of validate_metrics_by_company: unknown ids, percentages, counts, return
CompanySummary(L, m, g) ==
    LET all_missing_ids == Ids(L.missing_metrics) \cup Ids(L.error_lines)
    IN  [NoSummary EXCEPT
            !.returned = TRUE,
            !.valid_lines = Len(L.valid_lines),
            !.invalid_lines = Len(L.error_lines) + Len(L.missing_metrics),
            !.percent_min = TierPercent(g.minimum, all_missing_ids),
            !.percent_rec = TierPercent(g.intermediate, all_missing_ids),
            !.percent_full = TierPercent(g.full, all_missing_ids),
            !.missing_minimum =
                CountLevel(L.missing_metrics, {"minimum"})
                + CountListed(L.error_lines, L.tiers.minimum),
            !.missing_intermediate =
                CountLevel(L.missing_metrics, {"minimum", "intermediate"})
                + CountListed(L.error_lines, L.tiers.intermediate),
            !.missing_full =
                CountLevel(L.missing_metrics, {"minimum", "intermediate", "full"})
                + CountListed(L.error_lines, L.tiers.full),
            !.correct_lines = L.valid_lines,
            !.error_lines = L.error_lines,
            !.unknown_lines = UnknownLines(KeyOrder("company"), m, SCHEMA_PORTCO, 1),
            !.missing_metrics = L.missing_metrics,
            !.blank_lines = L.blank_lines,
            !.recommended_but_missing_lines = L.recommended_but_missing_lines,
            !.warning_lines = L.warning_lines]

\* provided_required_lines = [line for line in valid_lines if line["compound_id"] in required]
\* round((len(provided_required_lines) / len(required)) * 100, 2)
\* every valid record counted, required or not
PercentageOfAllValid(valid, required) == RoundedPercent(Len(valid), Len(required))

PercentageCompletion(valid, required) ==
    RoundedPercent(CountListed(valid, required), Len(required))

\* the tail of validate_metrics_by_fund / _gp; the GP one counts only error_lines
RequiredSummary(k, L, m) ==
    IF Len(L.tiers.required) = 0
    THEN Raised("ZeroDivisionError: division by zero")
    ELSE [NoSummary EXCEPT
            !.returned = TRUE,
            !.valid_lines = Len(L.valid_lines),
            !.invalid_lines = IF k = "fund"
                              THEN Len(L.error_lines) + Len(L.missing_metrics)
                              ELSE Len(L.error_lines),
            !.percent_completion = PercentageCompletion(L.valid_lines, L.tiers.required),
            !.correct_lines = L.valid_lines,
            !.error_lines = L.error_lines,
            !.unknown_lines = UnknownLines(KeyOrder(k), m, SchemaOf(k), 1),
            !.missing_metrics = L.missing_metrics,
            !.blank_lines = L.blank_lines,
            !.recommended_but_missing_lines = L.recommended_but_missing_lines]

(***************************************************************************)
(* Datasets: one row per compound id, or none                              *)
(***************************************************************************)
Absent == [present |-> FALSE, value |-> <<>>, status |-> ""]

Row(value, st) == [present |-> TRUE, value |-> value, status |-> st]

Provided(value) == Row(value, "provided")

\* company_data["metrics"] and company_data["status"] of read_and_organize_csv
MetricsOf(rows) == [id \in {i \in DOMAIN rows : rows[i].present} |-> rows[id].value]

StatusOf(rows) == [id \in {i \in DOMAIN rows : rows[i].present} |-> rows[id].status]

CompanyRows ==
    [currency : {Absent, Provided(Eur)},
     total_ftes_end_of_report_year :
        {Absent, Provided(<<"2", "0">>), Provided(Empty), Row(Empty, "not_available")},
     number_of_ftes_end_of_report_year_female : {Absent, Provided(<<"2", "1">>)},
     number_of_ftes_end_of_report_year_male : {Absent},
     tobacco_activities : {Absent, Provided(Yes), Provided(No)},
     percentage_turnover_tobacco_activities :
        {Absent, Provided(<<"5">>), Provided(Empty), Row(Empty, "not_applicable")},
     sustainability_responsibility_none : {Absent, Provided(Yes)},
     sustainability_responsibility_cfo :
        {Absent, Provided(Yes), Provided(No), Provided(Maybe),
         Row(Yes, "not_available"), Row(Yes, "n/a")},
     gross_revenue : {Absent, Provided(<<"1", "0", "0", ".", "5">>)}]

FundRows ==
    [fund_name : {Absent, Provided(Text)},
     adhere_to_ungc : {Absent, Provided(Yes), Provided(No)},
     no_ungc_explanation :
        {Absent, Provided(Text), Provided(Empty), Row(Empty, "not_applicable")},
     total_number_of_partners :
        {Absent, Provided(<<"5">>), Provided(Empty), Row(Empty, "not_available")},
     number_of_partners_female : {Absent, Provided(<<"2">>)},
     number_of_partners_male : {Absent, Provided(<<"3">>), Provided(<<"-", "1">>)}]

GpRows ==
    [use_of_international_disclosing_standard : {Absent, Provided(Yes), Provided(No)},
     use_of_international_disclosing_standard_tcfd :
        {Absent, Provided(Yes), Provided(Empty), Row(Empty, "not_applicable"),
         Row(Yes, "n/a")},
     number_of_esg_incidents : {Absent, Provided(<<"3">>), Provided(Yes)},
     qualitative_info_esg_incidents :
        {Absent, Provided(Text), Row(Empty, "not_available")},
     total_number_of_partners :
        {Absent, Provided(<<"5">>), Provided(<<"x">>), Provided(Empty),
         Row(Empty, "not_available")},
     number_of_partners_female : {Absent, Provided(<<"2">>), Provided(Empty)}]

(***************************************************************************)
(* The three entry points as one state machine                             *)
(***************************************************************************)
\* the module-level lists the entry point of kind k reads
GlobalLists(k) ==
    CASE k = "company" -> [minimum |-> MINIMUM_METRICS, intermediate |-> INTERMEDIATE_METRICS,
                           full |-> FULL_METRICS, required |-> <<>>]
      [] k = "fund" -> [minimum |-> <<>>, intermediate |-> <<>>, full |-> <<>>,
                        required |-> REQUIRED_FUND_METRICS]
      [] OTHER -> [minimum |-> <<>>, intermediate |-> <<>>, full |-> <<>>,
                   required |-> REQUIRED_GP_METRICS]

NoLists == [minimum |-> <<>>, intermediate |-> <<>>, full |-> <<>>, required |-> <<>>]

\* minimum = MINIMUM_METRICS[:] ... / required = REQUIRED_FUND_METRICS[:]:
\* the locals are copies, so appending to them leaves the module-level lists as they are
\* required = REQUIRED_FUND_METRICS (no copy): the appends reach the module-level list
ListsSharedRequired(g, t) == [g EXCEPT !.required = t.required]

\* minimum = MINIMUM_METRICS (no copy): the appends reach the module-level lists
ListsAliased(g, t) == t

ListsAfterAppend(g, t) == g

Locals ==
    [valid_lines |-> valid_lines, error_lines |-> error_lines,
     blank_lines |-> blank_lines,
     recommended_but_missing_lines |-> recommended_but_missing_lines,
     missing_metrics |-> missing_metrics, warning_lines |-> warning_lines,
     level |-> level, tiers |-> tiers, fault |-> ""]

SetLocals(L) ==
    /\ valid_lines' = L.valid_lines
    /\ error_lines' = L.error_lines
    /\ blank_lines' = L.blank_lines
    /\ recommended_but_missing_lines' = L.recommended_but_missing_lines
    /\ missing_metrics' = L.missing_metrics
    /\ warning_lines' = L.warning_lines
    /\ level' = L.level
    /\ tiers' = L.tiers

\* no second call
NoRun == [pc |-> "none"]

\* no request
NoResponse == [code |-> 0, errors |-> <<>>, companies |-> <<>>]

NoUpload ==
    /\ files = <<>>
    /\ all_companies_data = <<>>
    /\ file_errors = <<>>
    /\ response = NoResponse

\* no helper function called on its own
NoCall == [fn |-> "none"]

NoHelper ==
    /\ call = NoCall
    /\ result = NoValue

\* the state at the call of the entry point
Begin(k, rows, n, h) ==
    /\ kind = k
    /\ metrics = MetricsOf(rows)
    /\ status = StatusOf(rows)
    /\ glob = GlobalLists(k)
    /\ pc = "classify"
    /\ idx = 1
    /\ level = Unbound
    /\ valid_lines = <<>>
    /\ error_lines = <<>>
    /\ unknown_lines = <<>>
    /\ blank_lines = <<>>
    /\ recommended_but_missing_lines = <<>>
    /\ missing_metrics = <<>>
    /\ warning_lines = <<>>
    /\ tiers = NoLists
    /\ summary = NoSummary
    /\ run = n
    /\ history = h

\* one call, outside any upload request
Start(k, rows, n, h) ==
    /\ Begin(k, rows, n, h)
    /\ sibling = NoRun
    /\ NoUpload
    /\ NoHelper

Init ==
    \/ \E rows \in CompanyRows : Start("company", rows, 1, <<>>)
    \/ \E rows \in FundRows : Start("fund", rows, 1, <<>>)
    \/ \E rows \in GpRows : Start("gp", rows, 1, <<>>)

ClassifyMetric(k, L, m, st, g, compound_id) ==
    CASE k = "company" -> ClassifyCompanyMetric(L, m, st, g, compound_id)
      [] k = "fund" -> ClassifyFundMetric(L, m, st, g, compound_id)
      [] OTHER -> ClassifyGpMetric(L, m, st, g, compound_id)

ApplyRelation(k, L, m, st, relation) ==
    CASE k = "company" -> ApplyCompanyRelation(L, m, st, relation)
      [] k = "fund" -> ApplyFundRelation(L, m, st, relation)
      [] OTHER -> ApplyGpRelation(L, m, st, relation)

SummaryOf(k, L, m, g) ==
    IF k = "company" THEN CompanySummary(L, m, g) ELSE RequiredSummary(k, L, m)

\* the return statement, unless an exception has left the function
SummaryOrRaised(k, L, m, g) ==
    IF L.fault # "" THEN Raised(L.fault) ELSE SummaryOf(k, L, m, g)

\* the locals at the entry of validate_metrics_by_company / _fund / _gp
NewLocals ==
    [valid_lines |-> <<>>, error_lines |-> <<>>, blank_lines |-> <<>>,
     recommended_but_missing_lines |-> <<>>, missing_metrics |-> <<>>,
     warning_lines |-> <<>>, level |-> Unbound, tiers |-> NoLists, fault |-> ""]

RECURSIVE ClassifyAll(_, _, _, _, _, _)
\* the classification loop from its n-th iteration on, stopped by an exception
ClassifyAll(k, L, m, st, g, n) ==
    IF n > Len(UniverseOf(k)) THEN [L EXCEPT !.tiers = g]
    ELSE LET L1 == ClassifyMetric(k, L, m, st, g, UniverseOf(k)[n])
         IN  IF L1.fault # "" THEN L1 ELSE ClassifyAll(k, L1, m, st, g, n + 1)

RECURSIVE RelateAll(_, _, _, _, _)
\* `for relation in special_relations` from its n-th iteration on
RelateAll(k, L, m, st, n) ==
    IF n > Len(RelationsOf(k)) \/ L.fault # "" THEN L
    ELSE RelateAll(k, ApplyRelation(k, L, m, st, RelationsOf(k)[n]), m, st, n + 1)

\* one uninterrupted call of the entry point of kind k on the dataset (m, st),
\* with the module-level lists g: the Summary, or the exception
validate_metrics(k, m, st, g) ==
    SummaryOrRaised(k, RelateAll(k, ClassifyAll(k, NewLocals, m, st, g, 1), m, st, 1), m, g)

\* one iteration of the classification loop; after the last one the tier
\* lists are copied into the locals
Classify ==
    /\ pc = "classify"
    /\ LET L == ClassifyMetric(kind, Locals, metrics, status, glob, UniverseOf(kind)[idx])
           last == idx = Len(UniverseOf(kind))
       IN  IF L.fault # ""
           THEN /\ summary' = Raised(L.fault)
                /\ pc' = "done"
                /\ UNCHANGED <<idx, level, valid_lines, error_lines, blank_lines,
                               recommended_but_missing_lines, missing_metrics,
                               warning_lines, tiers>>
           ELSE /\ SetLocals(IF last THEN [L EXCEPT !.tiers = glob] ELSE L)
                /\ pc' = IF last THEN "relate" ELSE "classify"
                /\ idx' = IF last THEN 1 ELSE idx + 1
                /\ UNCHANGED summary
    /\ UNCHANGED <<kind, metrics, status, glob, unknown_lines, run, history, sibling,
                   upload, helper>>

\* one iteration of `for relation in special_relations`
Relate ==
    /\ pc = "relate"
    /\ LET L == ApplyRelation(kind, Locals, metrics, status, RelationsOf(kind)[idx])
           last == idx = Len(RelationsOf(kind))
       IN  IF L.fault # ""
           THEN /\ summary' = Raised(L.fault)
                /\ pc' = "done"
                /\ UNCHANGED <<glob, idx, level, valid_lines, error_lines, blank_lines,
                               recommended_but_missing_lines, missing_metrics,
                               warning_lines, tiers>>
           ELSE /\ SetLocals(L)
                /\ glob' = ListsAfterAppend(glob, L.tiers)
                /\ pc' = IF last THEN "aggregate" ELSE "relate"
                /\ idx' = IF last THEN 1 ELSE idx + 1
                /\ UNCHANGED summary
    /\ UNCHANGED <<kind, metrics, status, unknown_lines, run, history, sibling,
                   upload, helper>>

\* unknown ids, completion figures and the return statement
Aggregate ==
    /\ pc = "aggregate"
    /\ summary' = SummaryOf(kind, Locals, metrics, glob)
    /\ unknown_lines' = summary'.unknown_lines
    /\ pc' = "done"
    /\ UNCHANGED <<kind, metrics, status, glob, idx, level, valid_lines, error_lines,
                   blank_lines, recommended_but_missing_lines, missing_metrics,
                   warning_lines, tiers, run, history, sibling, upload, helper>>

\* the entry point is called again on the same dataset: fresh locals, the
\* module-level lists as the previous call left them
Rerun ==
    /\ pc = "done"
    /\ run < MaxRuns
    /\ run' = run + 1
    /\ history' = Append(history, summary)
    /\ pc' = "classify"
    /\ idx' = 1
    /\ level' = Unbound
    /\ valid_lines' = <<>>
    /\ error_lines' = <<>>
    /\ unknown_lines' = <<>>
    /\ blank_lines' = <<>>
    /\ recommended_but_missing_lines' = <<>>
    /\ missing_metrics' = <<>>
    /\ warning_lines' = <<>>
    /\ tiers' = NoLists
    /\ summary' = NoSummary
    /\ UNCHANGED <<kind, metrics, status, glob, sibling, upload, helper>>

Next == Classify \/ Relate \/ Aggregate \/ Rerun

Spec == Init /\ [][Next]_vars

\* company datasets around the FTE thresholds and the status codes
FteRows ==
    [currency : {Provided(Eur), Row(Eur, "n/a")},
     total_ftes_end_of_report_year :
        {Absent, Provided(Empty), Provided(<<"0">>), Provided(<<"1", "4">>),
         Provided(<<"1", "5">>), Provided(<<"2", "4", "9">>), Provided(<<"2", "5", "0">>),
         Provided(<<"a", "b", "c">>), Provided(<<"-", "5">>), Provided(<<"1", ".", "5">>),
         Row(<<"1", "5">>, "not_available")},
     number_of_ftes_end_of_report_year_female :
        {Absent, Provided(<<"5">>), Row(Empty, "not_available")},
     number_of_ftes_end_of_report_year_male : {Absent},
     tobacco_activities : {Absent, Row(Empty, "not_applicable")},
     percentage_turnover_tobacco_activities : {Absent, Row(Empty, "not_applicable")},
     sustainability_responsibility_none :
        {Absent, Provided(Yes), Row(Empty, "not_available"), Row(Yes, "not_applicable")},
     sustainability_responsibility_cfo : {Absent, Row(Yes, "not_available")},
     gross_revenue : {Absent}]

InitFte == \E rows \in FteRows : Start("company", rows, 1, <<>>)

SpecFte == InitFte /\ [][Next]_vars

\* company datasets around the tolerance of the FTE sum check
SumRows ==
    [currency : {Provided(Eur)},
     total_ftes_end_of_report_year :
        {Absent, Provided(Empty), Provided(<<"0">>), Provided(<<"2", "0">>),
         Provided(<<"1", "0", "0">>), Provided(<<"a", "b", "c">>),
         Row(<<"2", "0">>, "not_available"), Provided(<<SuperscriptTwo>>),
         Row(<<"2", SuperscriptTwo>>, "n/a")},
     number_of_ftes_end_of_report_year_female :
        {Absent, Provided(<<"0">>), Provided(<<"1", "0">>), Provided(<<"1", "0", "0">>),
         Provided(<<"x">>)},
     number_of_ftes_end_of_report_year_male :
        {Absent, Provided(<<"0">>), Provided(<<"5">>), Provided(<<"6">>), Provided(<<"8">>),
         Provided(<<"9">>), Provided(<<"1", "1">>), Provided(<<"1", "2">>),
         Row(<<"1", "2">>, "not_available")},
     tobacco_activities : {Absent},
     percentage_turnover_tobacco_activities : {Absent},
     sustainability_responsibility_none : {Absent},
     sustainability_responsibility_cfo : {Absent},
     gross_revenue : {Absent}]

InitSum == \E rows \in SumRows : Start("company", rows, 1, <<>>)

SpecSum == InitSum /\ [][Next]_vars

(***************************************************************************)
(* The upload handler of the company report                                *)
(***************************************************************************)
\* expected_headers of read_and_organize_csv
ExpectedHeaders == <<"COMPOUND_ID", "REPORTING_PERIOD", "UNIT", "VALUE", "STATUS", "COMMENTS">>

\* an uploaded file: whether its name ends with .csv, its first line
\* (<<>> when the file is empty), and its rows
File(csv, headers, rows) == [csv |-> csv, headers |-> headers, rows |-> rows]

\* company_data of read_and_organize_csv
DataOf(rows) == [metrics |-> MetricsOf(rows), status |-> StatusOf(rows)]

\* read_and_organize_csv: the dataset, or the ValueError it raises
read_and_organize_csv(file) ==
    IF file.headers = <<>>
    THEN [raised |-> TRUE, message |-> "The CSV file is empty or missing headers.",
          data |-> DataOf(file.rows)]
    ELSE IF file.headers # ExpectedHeaders
    THEN [raised |-> TRUE, message |-> "Invalid CSV headers. Expected: {expected_headers}, Found: {headers}",
          data |-> DataOf(file.rows)]
    ELSE [raised |-> FALSE, message |-> "", data |-> DataOf(file.rows)]

\* f"{file.filename}: {message}", the file named by its place in the request
FileError(n, message) == [file |-> n, message |-> message]

\* validate_multiple_companies: one call of validate_metrics_by_company per dataset
validate_multiple_companies(all_data, g) ==
    [n \in 1..Len(all_data) |->
        validate_metrics("company", all_data[n].metrics, all_data[n].status, g)]

\* the files of the requests
NoRows == [id \in {} |-> Absent]

FilePool ==
    {File(FALSE, ExpectedHeaders, NoRows),
     File(TRUE, <<>>, NoRows),
     File(TRUE, <<"ID", "VALUE">>, NoRows),
     File(TRUE, ExpectedHeaders,
          [currency |-> Provided(Eur), total_ftes_end_of_report_year |-> Provided(<<"2", "0">>)]),
     File(TRUE, ExpectedHeaders,
          [currency |-> Provided(Eur), tobacco_activities |-> Provided(Yes),
           sustainability_responsibility_cfo |-> Provided(No)]),
     File(TRUE, ExpectedHeaders, [currency |-> Row(Eur, "n/a")])}

InitUpload ==
    /\ files \in UNION {[1..n -> FilePool] : n \in 0..MaxFiles}
    /\ all_companies_data = <<>>
    /\ file_errors = <<>>
    /\ response = NoResponse
    /\ pc = IF files = <<>> THEN "respond" ELSE "upload"
    /\ idx = 1
    /\ kind = "company"
    /\ metrics = MetricsOf(NoRows)
    /\ status = StatusOf(NoRows)
    /\ glob = GlobalLists("company")
    /\ level = Unbound
    /\ valid_lines = <<>>
    /\ error_lines = <<>>
    /\ unknown_lines = <<>>
    /\ blank_lines = <<>>
    /\ recommended_but_missing_lines = <<>>
    /\ missing_metrics = <<>>
    /\ warning_lines = <<>>
    /\ tiers = NoLists
    /\ summary = NoSummary
    /\ run = 1
    /\ history = <<>>
    /\ sibling = NoRun
    /\ NoHelper

\* one iteration of `for file in files`
ReadFile ==
    /\ pc = "upload"
    /\ LET file == files[idx]
           read == read_and_organize_csv(file)
       IN  IF ~file.csv
           THEN /\ file_errors' = Append(file_errors,
                      FileError(idx, "Invalid file type. Only .csv files are accepted."))
                /\ UNCHANGED all_companies_data
           ELSE IF read.raised
           THEN /\ file_errors' = Append(file_errors, FileError(idx, read.message))
                /\ UNCHANGED all_companies_data
           ELSE /\ all_companies_data' = Append(all_companies_data, read.data)
                /\ UNCHANGED file_errors
    /\ pc' = IF idx = Len(files) THEN "respond" ELSE "upload"
    /\ idx' = IF idx = Len(files) THEN idx ELSE idx + 1
    /\ UNCHANGED <<files, response, kind, metrics, status, glob, level, valid_lines,
                   error_lines, unknown_lines, blank_lines,
                   recommended_but_missing_lines, missing_metrics, warning_lines,
                   tiers, summary, run, history, sibling, helper>>

\* the returns of upload_files: no files, the error strings with status 400,
\* or the Summaries; an exception of the validation leaves the handler (500)
Respond ==
    /\ pc = "respond"
    /\ response' =
          IF files = <<>>
          THEN [code |-> 400, errors |-> <<FileError(0, "No selected files")>>,
                companies |-> <<>>]
          ELSE IF file_errors # <<>>
          THEN [code |-> 400, errors |-> file_errors, companies |-> <<>>]
          ELSE LET validation_results == validate_multiple_companies(all_companies_data, glob)
               IN  IF \E n \in 1..Len(validation_results) : ~validation_results[n].returned
                   THEN [code |-> 500, errors |-> <<>>, companies |-> <<>>]
                   ELSE [code |-> 200, errors |-> <<>>, companies |-> validation_results]
    /\ pc' = "responded"
    /\ UNCHANGED <<files, all_companies_data, file_errors, idx, kind, metrics, status,
                   glob, level, valid_lines, error_lines, unknown_lines, blank_lines,
                   recommended_but_missing_lines, missing_metrics, warning_lines,
                   tiers, summary, run, history, sibling, helper>>

NextUpload == ReadFile \/ Respond

SpecUpload == InitUpload /\ [][NextUpload]_vars

(***************************************************************************)
(* Two calls of one entry point in two threads                             *)
(***************************************************************************)
\* what belongs to one call: its dataset, its position, its locals, its result
Context ==
    [pc |-> pc, idx |-> idx, metrics |-> metrics, status |-> status, level |-> level,
     valid_lines |-> valid_lines, error_lines |-> error_lines,
     unknown_lines |-> unknown_lines, blank_lines |-> blank_lines,
     recommended_but_missing_lines |-> recommended_but_missing_lines,
     missing_metrics |-> missing_metrics, warning_lines |-> warning_lines,
     tiers |-> tiers, summary |-> summary]

\* a call that has not taken a step yet
NewContext(rows) ==
    [pc |-> "classify", idx |-> 1, metrics |-> MetricsOf(rows), status |-> StatusOf(rows),
     level |-> Unbound, valid_lines |-> <<>>, error_lines |-> <<>>,
     unknown_lines |-> <<>>, blank_lines |-> <<>>,
     recommended_but_missing_lines |-> <<>>, missing_metrics |-> <<>>,
     warning_lines |-> <<>>, tiers |-> NoLists, summary |-> NoSummary]

PairCompanyRows ==
    [currency : {Provided(Eur)},
     tobacco_activities : {Absent, Provided(Yes)},
     percentage_turnover_tobacco_activities : {Absent, Provided(<<"5">>), Provided(Empty)}]

PairFundRows ==
    [adhere_to_ungc : {Provided(Yes), Provided(No)},
     no_ungc_explanation : {Absent, Provided(Text)}]

PairGpRows ==
    [use_of_international_disclosing_standard : {Provided(Yes), Provided(No)},
     use_of_international_disclosing_standard_tcfd : {Absent, Provided(Yes)}]

\* two calls on different datasets
BeginPair(k, rows1, rows2) ==
    /\ rows1 # rows2
    /\ Begin(k, rows1, 1, <<>>)
    /\ sibling = NewContext(rows2)
    /\ NoUpload
    /\ NoHelper

InitPair ==
    \/ \E rows1, rows2 \in PairCompanyRows : BeginPair("company", rows1, rows2)
    \/ \E rows1, rows2 \in PairFundRows : BeginPair("fund", rows1, rows2)
    \/ \E rows1, rows2 \in PairGpRows : BeginPair("gp", rows1, rows2)

\* the other thread, which has not returned yet, is scheduled: the locals
\* are per call, the module-level lists are shared
Switch ==
    /\ pc \in {"classify", "relate", "aggregate", "done"}
    /\ sibling.pc \in {"classify", "relate", "aggregate"}
    /\ sibling' = Context
    /\ pc' = sibling.pc
    /\ idx' = sibling.idx
    /\ metrics' = sibling.metrics
    /\ status' = sibling.status
    /\ level' = sibling.level
    /\ valid_lines' = sibling.valid_lines
    /\ error_lines' = sibling.error_lines
    /\ unknown_lines' = sibling.unknown_lines
    /\ blank_lines' = sibling.blank_lines
    /\ recommended_but_missing_lines' = sibling.recommended_but_missing_lines
    /\ missing_metrics' = sibling.missing_metrics
    /\ warning_lines' = sibling.warning_lines
    /\ tiers' = sibling.tiers
    /\ summary' = sibling.summary
    /\ UNCHANGED <<kind, glob, run, history, upload, helper>>

NextPair == Classify \/ Relate \/ Aggregate \/ Switch

SpecPair == InitPair /\ [][NextPair]_vars

(***************************************************************************)
(* The helper functions called on their own: get_typed_value and the value *)
(* interpreter, over schemas with the one metric id "m"                    *)
(***************************************************************************)
\* an entry with three allowed values
YesNoMaybeEntry == [YesNoEntry EXCEPT !.allowed = {Yes, No, Maybe}]

\* an entry whose allowed value no label dictionary has
FreeTextEntry == [YesNoEntry EXCEPT !.allowed = {Text}]

\* the schema without the metric id
NoSchema == [id \in {} |-> NoEntry]

CoerceSchemas == {[m |-> CountEntry], [m |-> AmountEntry], [m |-> StringEntry], NoSchema}

CoerceValues ==
    {<<"1", "2">>, <<"0">>, <<"0", "0", "7">>, <<"-", "5">>, <<"+", "3">>,
     <<"1", ".", "5">>, <<".", "5">>, <<"5", ".">>, <<"-", "1", ".", "5">>,
     <<"1", ".", "2", ".", "3">>, <<"-">>, <<".">>, <<"a", "b", "c">>, Yes, Empty,
     <<SuperscriptTwo>>, <<"1", SuperscriptTwo>>}

InterpretSchemas ==
    {[m |-> YesNoEntry], [m |-> YesNoMaybeEntry], [m |-> FreeTextEntry],
     [m |-> StringEntry], NoSchema}

\* label dictionaries: yes/no, and yes/no/maybe with labels of its own
YesNoLabels == [v \in {Yes, No} |-> IF v = Yes THEN LabelYes ELSE LabelNo]

YesNoMaybeLabels ==
    [v \in {Yes, No, Maybe} |->
        CASE v = Yes -> <<"Y">> [] v = No -> <<"N">> [] OTHER -> <<"M">>]

\* the OPTIONS objects, in the order of .items()
OptionsPool ==
    {<<>>, <<YesNoLabels>>, <<YesNoMaybeLabels>>, <<YesNoLabels, YesNoMaybeLabels>>,
     <<YesNoMaybeLabels, YesNoLabels>>}

InterpretValues == {Yes, No, Maybe, Text, Empty}

\* the calls
HelperCalls ==
    [fn : {"get_typed_value"}, schema : CoerceSchemas, options : {<<>>},
     value : CoerceValues, compound_id : {"m"}]
    \cup [fn : {"get_interpreted_value"}, schema : InterpretSchemas,
          options : OptionsPool, value : InterpretValues, compound_id : {"m"}]

InitHelper ==
    /\ call \in HelperCalls
    /\ result = NoValue
    /\ pc = "call"
    /\ idx = 1
    /\ kind = "company"
    /\ metrics = MetricsOf(NoRows)
    /\ status = StatusOf(NoRows)
    /\ glob = GlobalLists("company")
    /\ level = Unbound
    /\ valid_lines = <<>>
    /\ error_lines = <<>>
    /\ unknown_lines = <<>>
    /\ blank_lines = <<>>
    /\ recommended_but_missing_lines = <<>>
    /\ missing_metrics = <<>>
    /\ warning_lines = <<>>
    /\ tiers = NoLists
    /\ summary = NoSummary
    /\ run = 1
    /\ history = <<>>
    /\ sibling = NoRun
    /\ NoUpload

\* what a call leaves alone
pipeline == <<kind, metrics, status, glob, idx, level, valid_lines, error_lines,
              unknown_lines, blank_lines, recommended_but_missing_lines,
              missing_metrics, warning_lines, tiers, summary, run, history, sibling>>

\* get_typed_value(schema, value, compound_id): the typed value or the ValueError
Coerce ==
    /\ pc = "call"
    /\ call.fn = "get_typed_value"
    /\ result' = get_typed_value(call.schema, call.value, call.compound_id)
    /\ pc' = "returned"
    /\ UNCHANGED <<call, pipeline, upload>>

\* get_interpreted_value_portco / _fund / _gp with the schema and the OPTIONS
\* object of the call: the str it returns
Interpret ==
    /\ pc = "call"
    /\ call.fn = "get_interpreted_value"
    /\ result' = TStr(get_interpreted_value(call.schema, call.options, call.value,
                                            call.compound_id))
    /\ pc' = "returned"
    /\ UNCHANGED <<call, pipeline, upload>>

NextHelper == Coerce \/ Interpret

SpecHelper == InitHelper /\ [][NextHelper]_vars

(***************************************************************************)
(* Properties                                                              *)
(***************************************************************************)
AllIds == {"currency", "total_ftes_end_of_report_year",
           "number_of_ftes_end_of_report_year_female",
           "number_of_ftes_end_of_report_year_male", "tobacco_activities",
           "percentage_turnover_tobacco_activities",
           "sustainability_responsibility_none", "sustainability_responsibility_cfo",
           "gross_revenue", "fund_name", "adhere_to_ungc", "no_ungc_explanation",
           "total_number_of_partners", "number_of_partners_female",
           "number_of_partners_male", "use_of_international_disclosing_standard",
           "use_of_international_disclosing_standard_tcfd", "number_of_esg_incidents",
           "qualitative_info_esg_incidents", "not_in_schema"}

UniverseIds == {UniverseOf(kind)[n] : n \in 1..Len(UniverseOf(kind))}

\* the buckets of the running call that hold a record of the id
BucketsHolding(id) ==
    {b \in {"valid", "error", "blank", "missing", "recommended_but_missing"} :
        id \in Ids(CASE b = "valid" -> valid_lines
                     [] b = "error" -> error_lines
                     [] b = "blank" -> blank_lines
                     [] b = "missing" -> missing_metrics
                     [] OTHER -> recommended_but_missing_lines)}

\* the number of records the returned Summary holds for the id in the five buckets
RecordsInSummary(id) ==
    Count(summary.correct_lines, id) + Count(summary.error_lines, id)
    + Count(summary.blank_lines, id) + Count(summary.missing_metrics, id)
    + Count(summary.recommended_but_missing_lines, id)

Returned == pc = "done" /\ summary.returned

\* C1: at every step of classification and of relation evaluation, no
\* compound_id has records in two different buckets among valid, error,
\* blank, missing and recommended_but_missing
C1_AtMostOneBucket == \A id \in AllIds : Cardinality(BucketsHolding(id)) <= 1

\* C2: for every dataset on which the pipeline completes, every id of the
\* metric universe has exactly one record across valid, error, blank,
\* missing and recommended_but_missing of the returned Summary
C2_ExactlyOneRecord ==
    Returned => \A id \in UniverseIds : RecordsInSummary(id) = 1

\* the rows that the company entry point reads unconditionally are there
HardDependenciesPresent ==
    kind = "company" =>
        {"currency", "total_ftes_end_of_report_year"} \subseteq DOMAIN metrics

\* C3: whatever raw values and status codes the metrics carry, the entry
\* point returns a Summary (no exception escapes because of a field value)
C3_NeverRaises == (pc = "done" /\ HardDependenciesPresent) => summary.returned

\* C4: a second call on the unchanged dataset returns the Summary of the
\* first call (or fails with the same exception)
C4_Idempotent == (pc = "done" /\ run > 1) => summary = history[run - 1]

\* a second call has returned after a first call in which a rule extended
\* the local tier / required lists
C4_Witness ==
    /\ pc = "done"
    /\ run = 2
    /\ summary.returned
    /\ tiers # glob

\* the schema in force for the running entry point
Schema == SchemaOf(kind)

\* present, status provided, non-empty, and accepted by the schema entry
SatisfiesSchema(id) ==
    /\ id \in DOMAIN metrics
    /\ status[id] = "provided"
    /\ metrics[id] # <<>>
    /\ ValidatorErrors(SchemaGet(Schema, id), get_typed_value(Schema, metrics[id], id)) = <<>>

UnitsOf(k) ==
    CASE k = "company" -> COMPOUND_ID_UNITS
      [] k = "fund" -> FUND_COMPOUND_ID_UNITS
      [] OTHER -> GP_COMPOUND_ID_UNITS

\* the suffix the configuration asks for: a space and the unit, the reported
\* currency code standing for the unit "currency"
UnitSuffix(id) ==
    <<" ">> \o (IF UnitsOf(kind)[id] = UnitCurrency THEN metrics["currency"]
                ELSE UnitsOf(kind)[id])

EndsWith(str, suffix) ==
    /\ Len(str) >= Len(suffix)
    /\ SubSeq(str, Len(str) - Len(suffix) + 1, Len(str)) = suffix

RecordOf(lines, id) == lines[CHOOSE n \in 1..Len(lines) : lines[n].compound_id = id]

\* in valid, in no other bucket, interpreted value ending with the unit
ValidWithUnit(id) ==
    /\ Count(summary.correct_lines, id) = 1
    /\ RecordsInSummary(id) = 1
    /\ id \in DOMAIN UnitsOf(kind) =>
          EndsWith(RecordOf(summary.correct_lines, id).interpreted_value, UnitSuffix(id))

ConflictFires(id) ==
    \E n \in 1..Len(RelationsOf(kind)) :
        LET relation == RelationsOf(kind)[n]
        IN  /\ relation.rk = "conflict_trigger"
            /\ ValueIs(metrics, relation.conflict_trigger, relation.conflict_trigger_value)
            /\ InList(id, relation.conflicting_fields)
            /\ ValueIs(metrics, id, Yes)

AbsentDependents ==
    {p \in [relation : {RelationsOf(kind)[n] : n \in 1..Len(RelationsOf(kind))},
            id : AllIds] :
        /\ p.relation.rk = "condition_id"
        /\ ValueIs(metrics, p.relation.condition_id, p.relation.condition_value)
        /\ InList(p.id, p.relation.dependent_ids)
        /\ p.id \notin DOMAIN metrics}

C8_ConflictForcesError ==
    (Returned /\ kind = "company") => \A id \in UniverseIds :
        ConflictFires(id) =>
            /\ Count(summary.error_lines, id) >= 1
            /\ Count(summary.correct_lines, id) = 0

\* none = "yes" and cfo = "yes", provided and valid by the schema
C8_Witness ==
    /\ Returned
    /\ kind = "company"
    /\ ConflictFires("sustainability_responsibility_cfo")
    /\ SatisfiesSchema("sustainability_responsibility_cfo")
    /\ Count(summary.error_lines, "sustainability_responsibility_cfo") = 1

\* the sum-check rules of the company pipeline
SumCheckRules ==
    {CompanyRelations[n] : n \in {k \in 1..Len(CompanyRelations) :
                                      CompanyRelations[k].rk = "sum_check"}}

\* a component that is present with an integer value
IntegerComponent(id) ==
    id \in DOMAIN metrics /\ metrics[id] # <<>> /\ AllDigits(metrics[id])

RECURSIVE SumOfComponents(_, _)
SumOfComponents(component_fields, k) ==
    IF k = 0 THEN 0
    ELSE SumOfComponents(component_fields, k - 1)
            + (IF IntegerComponent(component_fields[k])
               THEN IntOf(metrics[component_fields[k]]) ELSE 0)

\* C6: for a sum-check rule with an integer total T and integer components
\* summing to S, there is a warning record for the total exactly when
\* |T - S| * 100 > |T| * tolerance_percent (T # 0) or S # 0 (T = 0), and
\* none when no component is present
C6_SumCheckBoundary ==
    (Returned /\ kind = "company") => \A relation \in SumCheckRules :
        IntegerComponent(relation.total_field) =>
            LET T == IntOf(metrics[relation.total_field])
                S == SumOfComponents(relation.component_fields,
                                     Len(relation.component_fields))
                found == \E k \in 1..Len(relation.component_fields) :
                            IntegerComponent(relation.component_fields[k])
                expected == /\ found
                            /\ IF T = 0 THEN S # 0
                               ELSE Abs(T - S) * 100 > Abs(T) * relation.tolerance_percent
            IN  Count(summary.warning_lines, relation.total_field)
                    = IF expected THEN 1 ELSE 0

\* total 100, components 100 + 6: a warning
C6_Witness ==
    /\ Returned
    /\ kind = "company"
    /\ IntegerComponent("total_ftes_end_of_report_year")
    /\ IntOf(metrics["total_ftes_end_of_report_year"]) = 100
    /\ SumOfComponents(<<"number_of_ftes_end_of_report_year_female",
                         "number_of_ftes_end_of_report_year_male">>, 2) = 106
    /\ Count(summary.warning_lines, "total_ftes_end_of_report_year") = 1

\* the classification loop of the company pipeline has just finished
Classified == kind = "company" /\ pc = "relate" /\ idx = 1

Flagged(id) == id \in DOMAIN metrics /\ status[id] \in NotApplicableOrAvailable

OnlyIn(id, bucket) == BucketsHolding(id) = {bucket}

ConditionalFires ==
    \E n \in 1..Len(RelationsOf(kind)) :
        /\ RelationsOf(kind)[n].rk = "condition_id"
        /\ ValueIs(metrics, RelationsOf(kind)[n].condition_id,
                   RelationsOf(kind)[n].condition_value)

\* the valid records whose id is in the list
ValidListed(required) ==
    Cardinality({n \in 1..Len(summary.correct_lines) :
                    InList(summary.correct_lines[n].compound_id, required)})

\* C10: percent_completion of a fund or GP Summary is between 0 and 100, and
\* when no conditional rule fires it is round(100 * v / r, 2) for the r ids
\* of the required list and the v valid records among them (in hundredths)
C10_CompletionRatio ==
    (Returned /\ kind \in {"fund", "gp"}) =>
        /\ summary.percent_completion \in 0..10000
        /\ ~ConditionalFires =>
              summary.percent_completion
                  = RoundedPercent(ValidListed(GlobalLists(kind).required),
                                   Len(GlobalLists(kind).required))

\* the fund pipeline, 5 required ids, 3 of them valid: 60.0
C10_Witness ==
    /\ Returned
    /\ kind = "fund"
    /\ ~ConditionalFires
    /\ Len(GlobalLists(kind).required) = 5
    /\ ValidListed(GlobalLists(kind).required) = 3
    /\ summary.percent_completion = 6000

\* C11: the step that evaluates a sum-check rule leaves the valid, error,
\* blank, missing and recommended_but_missing buckets, and the tier lists the
\* counts are taken over, as they were; it can only append a warning record
C11_SumCheckFrame ==
    [][(pc = "relate" /\ RelationsOf(kind)[idx].rk = "sum_check") =>
          UNCHANGED <<valid_lines, error_lines, blank_lines, missing_metrics,
                      recommended_but_missing_lines, tiers>>]_vars

\* the sum-check rule, the last of the company rules, has appended a warning
C11_Witness ==
    /\ kind = "company"
    /\ pc = "aggregate"
    /\ Len(warning_lines) = 1
    /\ warning_lines[1].compound_id = "total_ftes_end_of_report_year"

\* the universe metrics with a per-metric value error: provided with an empty
\* value, or a status other than provided / not_applicable / not_available
ErroneousIds ==
    {id \in UniverseIds :
        /\ id \in DOMAIN metrics
        /\ \/ status[id] = "provided" /\ metrics[id] = <<>>
           \/ status[id] \notin NotApplicableOrAvailable \cup {"provided"}}

\* the dataset has no other defect: no metric is flagged, and a company
\* dataset reports its currency
OnlyValueErrors ==
    /\ \A id \in DOMAIN metrics : status[id] \notin NotApplicableOrAvailable
    /\ kind = "company" => "currency" \in DOMAIN metrics

\* C12: in a dataset with per-metric value errors the run returns a Summary
\* in which each erroneous metric has a record in the error bucket and every
\* other universe metric has its record
C12_ValueErrorsRecovered ==
    (pc = "done" /\ ErroneousIds # {} /\ OnlyValueErrors) =>
        /\ summary.returned
        /\ \A id \in ErroneousIds : Count(summary.error_lines, id) >= 1
        /\ \A id \in UniverseIds \ ErroneousIds : RecordsInSummary(id) >= 1

\* datasets with a row whose id is in no schema
UnknownRow ==
    {Absent, Provided(Text), Provided(Empty), Row(Text, "not_available"), Row(Yes, "n/a")}

UnknownCompanyRows ==
    [currency : {Provided(Eur)},
     total_ftes_end_of_report_year : {Absent, Provided(<<"2", "0">>)},
     tobacco_activities : {Absent, Provided(Yes)},
     percentage_turnover_tobacco_activities : {Absent, Provided(<<"5">>)},
     sustainability_responsibility_cfo : {Absent, Provided(Yes), Row(Empty, "not_available")},
     not_in_schema : UnknownRow]

UnknownFundRows ==
    [fund_name : {Absent, Provided(Text)},
     adhere_to_ungc : {Absent, Provided(No)},
     no_ungc_explanation : {Absent, Provided(Text)},
     not_in_schema : UnknownRow]

UnknownGpRows ==
    [use_of_international_disclosing_standard : {Absent, Provided(Yes)},
     use_of_international_disclosing_standard_tcfd : {Absent, Provided(Yes)},
     total_number_of_partners : {Absent, Provided(<<"5">>)},
     not_in_schema : UnknownRow]

InitUnknown ==
    \/ \E rows \in UnknownCompanyRows : Start("company", rows, 1, <<>>)
    \/ \E rows \in UnknownFundRows : Start("fund", rows, 1, <<>>)
    \/ \E rows \in UnknownGpRows : Start("gp", rows, 1, <<>>)

SpecUnknown == InitUnknown /\ [][Next]_vars

\* the ids of the dataset that the schema does not have
UnknownIds == {id \in DOMAIN metrics : id \notin DOMAIN Schema}

\* the dataset without the rows of these ids
Dropping(f, ids) == [id \in DOMAIN f \ ids |-> f[id]]

\* C13: every dataset id that the schema does not have has exactly one
\* record in unknown, with no requirement level, and the run ends as it ends
\* on the dataset without these ids, the unknown bucket apart
C13_UnknownIds ==
    pc = "done" =>
        /\ summary.returned =>
              \A id \in UnknownIds :
                  /\ Count(summary.unknown_lines, id) = 1
                  /\ "requirement_level" \notin RecordOf(summary.unknown_lines, id).keys
        /\ [summary EXCEPT !.unknown_lines = <<>>]
              = [validate_metrics(kind, Dropping(metrics, UnknownIds),
                                  Dropping(status, UnknownIds), GlobalLists(kind))
                    EXCEPT !.unknown_lines = <<>>]

\* a returned Summary with valid records and the record of the unknown id
C13_Witness ==
    /\ Returned
    /\ "not_in_schema" \in UnknownIds
    /\ Len(summary.unknown_lines) = 1
    /\ summary.valid_lines >= 2
    /\ summary.missing_metrics # <<>>

\* every status of the dataset is one of the three status codes
KnownStatuses ==
    \A id \in DOMAIN metrics : status[id] \in NotApplicableOrAvailable \cup {"provided"}

\* C14: a company dataset without total_ftes_end_of_report_year, with a
\* flagged universe metric and no other defect, ends in a returned Summary
\* and not in an exception that leaves validate_metrics_by_company
C14_MissingFteHandled ==
    (/\ pc = "done"
     /\ kind = "company"
     /\ "total_ftes_end_of_report_year" \notin DOMAIN metrics
     /\ \E id \in UniverseIds : Flagged(id)
     /\ KnownStatuses
     /\ "currency" \in DOMAIN metrics) => summary.returned

\* a file with wrong headers, or an empty one
BadShape(file) == file.csv /\ file.headers # ExpectedHeaders

\* the Summary the file's dataset gets from validate_metrics_by_company
SummaryOfFile(file) ==
    validate_metrics("company", MetricsOf(file.rows), StatusOf(file.rows),
                     GlobalLists("company"))

\* a well-formed file whose dataset the validator returns a Summary for
WellFormed(file) ==
    file.csv /\ file.headers = ExpectedHeaders /\ SummaryOfFile(file).returned

\* C15: in a request with a file of wrong shape, the response has an error
\* string for that file and the Summary of every well-formed file
C15_BadFileFatalToItselfOnly ==
    (pc = "responded" /\ \E n \in 1..Len(files) : BadShape(files[n])) =>
        \A n \in 1..Len(files) :
            /\ BadShape(files[n]) =>
                  \E e \in 1..Len(response.errors) : response.errors[e].file = n
            /\ WellFormed(files[n]) =>
                  \E c \in 1..Len(response.companies) :
                      response.companies[c] = SummaryOfFile(files[n])

\* C16: no call changes the process-wide lists, and each of two interleaved
\* calls on different datasets returns what one uninterrupted call on its
\* dataset returns
C16_NoSharedMutableState ==
    /\ glob = GlobalLists(kind)
    /\ pc = "done" =>
          summary = validate_metrics(kind, metrics, status, GlobalLists(kind))
    /\ sibling.pc = "done" =>
          sibling.summary = validate_metrics(kind, sibling.metrics, sibling.status,
                                             GlobalLists(kind))

\* one call has returned after extending its local lists, while the other is
\* in the middle of its relation loop and has extended its own
C16_Witness ==
    /\ pc = "done"
    /\ summary.returned
    /\ tiers # glob
    /\ sibling.pc = "relate"
    /\ sibling.tiers # glob
    /\ sibling.tiers # NoLists

\* the tier's metrics with a record in the missing or the error bucket
Unmet(tier_list) ==
    {id \in {tier_list[n] : n \in 1..Len(tier_list)} :
        Count(summary.missing_metrics, id) + Count(summary.error_lines, id) > 0}

\* round(100 * met / n, 2) in hundredths, 0 for an empty tier list
ExpectedTierPercent(tier_list) ==
    IF Len(tier_list) = 0 THEN 0
    ELSE RoundedPercent(Len(tier_list) - Cardinality(Unmet(tier_list)), Len(tier_list))

\* C17: each tier percentage of the company Summary is round(100 * met / n, 2)
\* for the n metrics of the tier list and the met ones with no record in
\* missing or error, and lies between 0 and 100
C17_CompanyPercentages ==
    (Returned /\ kind = "company") =>
        /\ summary.percent_min = ExpectedTierPercent(MINIMUM_METRICS)
        /\ summary.percent_rec = ExpectedTierPercent(INTERMEDIATE_METRICS)
        /\ summary.percent_full = ExpectedTierPercent(FULL_METRICS)
        /\ {summary.percent_min, summary.percent_rec, summary.percent_full} \subseteq 0..10000

\* two of the three minimum-tier metrics met (66.67), the third one in
\* missing; a minimum-tier metric in recommended_but_missing counts as met
C17_Witness ==
    /\ Returned
    /\ kind = "company"
    /\ summary.percent_min = 6667
    /\ Cardinality(Unmet(MINIMUM_METRICS)) = 1
    /\ \E n \in 1..Len(summary.recommended_but_missing_lines) :
          InList(summary.recommended_but_missing_lines[n].compound_id, MINIMUM_METRICS)

\* the records of the missing bucket whose requirement level is one of the tiers
MissingOfTiers(names) ==
    Cardinality({n \in 1..Len(summary.missing_metrics) :
        summary.missing_metrics[n].requirement_level \in {LevelName(name) : name \in names}})

\* C18: the missing counts of the company Summary are cumulative: each
\* count includes every missing record of its tier and of the tiers below
C18_CumulativeMissingCounts ==
    (Returned /\ kind = "company") =>
        /\ summary.missing_minimum >= MissingOfTiers({"Minimum"})
        /\ summary.missing_intermediate >= MissingOfTiers({"Minimum", "Intermediate"})
        /\ summary.missing_full >= MissingOfTiers({"Minimum", "Intermediate", "Full"})

RECURSIVE EscalatedInto(_, _)
\* the dependents of the conditional rules, from the n-th rule on, that fire
\* with a condition id of the tier list
EscalatedInto(tier_list, n) ==
    IF n > Len(CompanyRelations) THEN <<>>
    ELSE (IF /\ CompanyRelations[n].rk = "condition_id"
             /\ ValueIs(metrics, CompanyRelations[n].condition_id,
                        CompanyRelations[n].condition_value)
             /\ InList(CompanyRelations[n].condition_id, tier_list)
          THEN CompanyRelations[n].dependent_ids
          ELSE <<>>) \o EscalatedInto(tier_list, n + 1)

\* C19: the aggregator counts the dependents of a fired conditional rule as
\* members of the tier of the rule's condition id: the tier's percentage is
\* taken over the tier list with the dependents, and a dependent in missing
\* or error is in the tier's missing count
C19_TierEscalation ==
    (Returned /\ kind = "company") =>
        /\ summary.percent_min
              = ExpectedTierPercent(MINIMUM_METRICS \o EscalatedInto(MINIMUM_METRICS, 1))
        /\ summary.percent_rec
              = ExpectedTierPercent(INTERMEDIATE_METRICS \o EscalatedInto(INTERMEDIATE_METRICS, 1))
        /\ summary.percent_full
              = ExpectedTierPercent(FULL_METRICS \o EscalatedInto(FULL_METRICS, 1))
        /\ summary.missing_minimum
              >= Cardinality(Unmet(EscalatedInto(MINIMUM_METRICS, 1)))
        /\ summary.missing_intermediate
              >= Cardinality(Unmet(EscalatedInto(INTERMEDIATE_METRICS, 1)))
        /\ summary.missing_full
              >= Cardinality(Unmet(EscalatedInto(FULL_METRICS, 1)))

\* the required set after relation evaluation: the ids of the required list
\* and the dependents of the conditional rules that fire
RequiredSet ==
    {id \in AllIds :
        \/ InList(id, GlobalLists(kind).required)
        \/ \E n \in 1..Len(RelationsOf(kind)) :
              /\ RelationsOf(kind)[n].rk = "condition_id"
              /\ ValueIs(metrics, RelationsOf(kind)[n].condition_id,
                         RelationsOf(kind)[n].condition_value)
              /\ InList(id, RelationsOf(kind)[n].dependent_ids)}

ValidRequired == {id \in RequiredSet : Count(summary.correct_lines, id) >= 1}

\* C20: percent_completion of a fund or GP Summary is the share of the
\* distinct ids of the required set that have a valid record, and it is 100
\* exactly when every id of the set has one
C20_DistinctRequiredIds ==
    (Returned /\ kind \in {"fund", "gp"}) =>
        /\ summary.percent_completion
              = RoundedPercent(Cardinality(ValidRequired), Cardinality(RequiredSet))
        /\ summary.percent_completion = 10000 <=> ValidRequired = RequiredSet

\* the universe ids the dataset has no row for
AbsentIds == UniverseIds \ DOMAIN metrics

\* the requirement level the static lists give an absent id
StaticLevelOf(id) ==
    IF kind = "company"
    THEN StaticLevel(GlobalLists(kind), id, "Value not required (optional)")
    ELSE RequiredLevel(GlobalLists(kind), id)

\* the requirement levels that the rules that fire write for the id
RelationLevels(id) ==
    {IF relation.rk = "condition_id"
     THEN BecauseCondition(relation.condition_id, relation.condition_value)
     ELSE BecauseValues(relation.condition_ids) :
        relation \in {r \in {RelationsOf(kind)[n] : n \in 1..Len(RelationsOf(kind))} :
            \/ /\ r.rk = "condition_id"
               /\ ValueIs(metrics, r.condition_id, r.condition_value)
               /\ InList(id, r.dependent_ids)
            \/ /\ r.rk = "condition_ids"
               /\ AnyProvided(metrics, r.condition_ids)
               /\ r.total_field = id}}

\* C21: from the end of classification to the end of relation evaluation,
\* every universe id that the dataset has no row for has exactly one record
\* in missing and none in valid, error, blank, recommended_but_missing or
\* warning; its requirement level is the one of the static tier lists at the
\* end of classification, and at the end of relation evaluation it is that
\* one unless a rule that fires on the id has written its own
C21_AbsentInMissing ==
    pc \in {"relate", "aggregate"} =>
        \A id \in AbsentIds :
            /\ Count(missing_metrics, id) = 1
            /\ BucketsHolding(id) = {"missing"}
            /\ Count(warning_lines, id) = 0
            /\ (pc = "relate" /\ idx = 1) =>
                  RecordOf(missing_metrics, id).requirement_level = StaticLevelOf(id)
            /\ pc = "aggregate" =>
                  IF RelationLevels(id) = {}
                  THEN RecordOf(missing_metrics, id).requirement_level = StaticLevelOf(id)
                  ELSE RecordOf(missing_metrics, id).requirement_level \in RelationLevels(id)

\* the fund rules have run: the absent total carries the level of the
\* subset-total rule, the absent fund_name the static one
C21_Witness ==
    /\ kind = "fund"
    /\ pc = "aggregate"
    /\ {"total_number_of_partners", "fund_name"} \subseteq AbsentIds
    /\ RelationLevels("total_number_of_partners") # {}
    /\ RecordOf(missing_metrics, "total_number_of_partners").requirement_level
          = BecauseValues(<<"number_of_partners_female", "number_of_partners_male">>)
    /\ RecordOf(missing_metrics, "fund_name").requirement_level
          = LevelName("Strongly recommended")

\* in none of the minimum, intermediate and full lists
OptionalTier(id) ==
    ~InList(id, MINIMUM_METRICS) /\ ~InList(id, INTERMEDIATE_METRICS)
    /\ ~InList(id, FULL_METRICS)

\* the metric's tier is Minimum, or the FTE count n reaches the threshold of its tier
Escalating(id, n) ==
    \/ InList(id, MINIMUM_METRICS)
    \/ InList(id, INTERMEDIATE_METRICS) /\ n >= FteIntermediate
    \/ InList(id, FULL_METRICS) /\ n >= FteFull

\* C22: at the end of the company classification, with
\* total_ftes_end_of_report_year a numeral or empty, a flagged metric has its
\* record in blank unless its tier is Minimum or the FTE count reaches the
\* threshold of its tier, and a flagged metric of none of the three tier
\* lists has its record in blank whether the FTE field is a numeral or empty
C22_ExemptedDefaultBlank ==
    (/\ Classified
     /\ "total_ftes_end_of_report_year" \in DOMAIN metrics
     /\ \/ isnumeric(metrics["total_ftes_end_of_report_year"])
        \/ metrics["total_ftes_end_of_report_year"] = <<>>) =>
        \A id \in UniverseIds : Flagged(id) =>
            /\ (/\ isnumeric(metrics["total_ftes_end_of_report_year"])
                /\ ~Escalating(id, IntOf(metrics["total_ftes_end_of_report_year"])))
                  => OnlyIn(id, "blank")
            /\ OptionalTier(id) => OnlyIn(id, "blank")

\* the subset-total rules of the running pipeline with a non-empty condition id
SubsetTotalFiring ==
    {r \in {RelationsOf(kind)[n] : n \in 1..Len(RelationsOf(kind))} :
        r.rk = "condition_ids" /\ AnyProvided(metrics, r.condition_ids)}

\* the buckets that hold a record of the id among the locals L
BucketsIn(L, id) ==
    {b \in {"valid", "error", "blank", "missing", "recommended_but_missing"} :
        id \in Ids(CASE b = "valid" -> L.valid_lines
                     [] b = "error" -> L.error_lines
                     [] b = "blank" -> L.blank_lines
                     [] b = "missing" -> L.missing_metrics
                     [] OTHER -> L.recommended_but_missing_lines)}

\* C23: after relation evaluation, for a subset-total rule with a non-empty
\* condition id, a flagged total_field is in recommended_but_missing and
\* neither in missing nor in blank; a total_field that is absent, or empty
\* without the flag, has a missing record whose requirement level lists the
\* rule's condition ids; a total_field with a non-empty provided value is in
\* the buckets the classification put it in
C23_SubsetTotal ==
    pc = "aggregate" => \A r \in SubsetTotalFiring :
        LET id == r.total_field
        IN  /\ Flagged(id) =>
                  /\ "recommended_but_missing" \in BucketsHolding(id)
                  /\ BucketsHolding(id) \cap {"missing", "blank"} = {}
            /\ (id \notin DOMAIN metrics \/ (metrics[id] = <<>> /\ ~Flagged(id))) =>
                  /\ Count(missing_metrics, id) = 1
                  /\ RecordOf(missing_metrics, id).requirement_level.ids = r.condition_ids
            /\ (id \in DOMAIN metrics /\ metrics[id] # <<>> /\ status[id] = "provided") =>
                  BucketsHolding(id)
                      = BucketsIn(ClassifyAll(kind, NewLocals, metrics, status,
                                              GlobalLists(kind), 1), id)

\* the present dependents of the conditional rules that fire
PresentDependents ==
    {p \in [relation : {RelationsOf(kind)[n] : n \in 1..Len(RelationsOf(kind))},
            id : AllIds] :
        /\ p.relation.rk = "condition_id"
        /\ ValueIs(metrics, p.relation.condition_id, p.relation.condition_value)
        /\ InList(p.id, p.relation.dependent_ids)
        /\ p.id \in DOMAIN metrics}

\* the requirement level names the rule's condition id and condition value
CitesTrigger(requirement_level, relation) ==
    /\ requirement_level.ids = <<relation.condition_id>>
    /\ requirement_level.val = relation.condition_value

\* the record without its requirement level
SansLevel(line) ==
    [line EXCEPT !.requirement_level = Unbound, !.keys = @ \ {"requirement_level"}]

\* C24: after relation evaluation, the present dependent of a conditional
\* rule that fired has exactly one record in recommended_but_missing and
\* none in blank when it is flagged; a record in missing when its value is
\* empty and it is not flagged; and, when the classification gave it a valid
\* record, that record still in valid, unchanged but for its requirement
\* level, which names the trigger
C24_PresentDependent ==
    pc = "aggregate" => \A p \in PresentDependents :
        /\ Flagged(p.id) =>
              /\ Count(recommended_but_missing_lines, p.id) = 1
              /\ Count(blank_lines, p.id) = 0
        /\ (metrics[p.id] = <<>> /\ ~Flagged(p.id)) => Count(missing_metrics, p.id) = 1
        /\ SatisfiesSchema(p.id) =>
              LET before == ClassifyAll(kind, NewLocals, metrics, status,
                                        GlobalLists(kind), 1).valid_lines
              IN  /\ Count(valid_lines, p.id) = 1
                  /\ SansLevel(RecordOf(valid_lines, p.id))
                        = SansLevel(RecordOf(before, p.id))
                  /\ "requirement_level" \in RecordOf(valid_lines, p.id).keys
                  /\ CitesTrigger(RecordOf(valid_lines, p.id).requirement_level, p.relation)

\* a non-empty string of decimal digits
NonNegativeNumeral(s) == Len(s) > 0 /\ AllDigits(s)

\* C25: get_typed_value raises no exception; it returns an integer only when
\* the declared type is integer and the string is a non-negative numeral, a
\* float only when the declared type is float and the string parses as a
\* float, and in every other case the string unchanged
C25_CoercionTotal ==
    (pc = "returned" /\ call.fn = "get_typed_value") =>
        LET type == SchemaGet(call.schema, call.compound_id).type
        IN  /\ result # ValueError
            /\ result.t = "int" => (type = "integer" /\ NonNegativeNumeral(call.value))
            /\ result.t = "float" => (type = "float" /\ is_float(call.value))
            /\ result.t \notin {"int", "float"} => result = TStr(call.value)

\* the label dictionaries of the call whose keys include the allowed values
MatchingDictionaries ==
    LET entry == SchemaGet(call.schema, call.compound_id)
    IN  IF entry.hasAllowed /\ entry.allowed # {}
        THEN {k \in 1..Len(call.options) : entry.allowed \subseteq DOMAIN call.options[k]}
        ELSE {}

\* C26: the interpreter returns something other than the value only when the
\* allowed values of the metric are among the keys of exactly one label
\* dictionary, and then the label of that dictionary; with no such
\* dictionary, with more than one, or without allowed values it returns the
\* value unchanged
C26_ExactlyOneDictionary ==
    (pc = "returned" /\ call.fn = "get_interpreted_value") =>
        /\ result.s # call.value =>
              /\ Cardinality(MatchingDictionaries) = 1
              /\ \E k \in MatchingDictionaries :
                    /\ call.value \in DOMAIN call.options[k]
                    /\ result.s = call.options[k][call.value]
        /\ Cardinality(MatchingDictionaries) # 1 => result.s = call.value

(***************************************************************************)
(* The rule list in another order                                          *)
(***************************************************************************)
RECURSIVE RelateIn(_, _, _, _, _, _)
\* `for relation in special_relations` over the list `relations`, from its
\* n-th iteration on, stopped by an exception
RelateIn(k, L, m, st, relations, n) ==
    IF n > Len(relations) \/ L.fault # "" THEN L
    ELSE RelateIn(k, ApplyRelation(k, L, m, st, relations[n]), m, st, relations, n + 1)

\* the rule list of kind k rearranged by the permutation p of its positions
Reordered(k, p) == [n \in 1..Len(RelationsOf(k)) |-> RelationsOf(k)[p[n]]]

\* the compound ids held by each bucket
BucketIds(L) ==
    [valid |-> Ids(L.valid_lines), error |-> Ids(L.error_lines),
     blank |-> Ids(L.blank_lines), missing |-> Ids(L.missing_metrics),
     recommended_but_missing |-> Ids(L.recommended_but_missing_lines),
     warning |-> Ids(L.warning_lines)]

\* single calls on the datasets of Init and on those around the sum check
InitRules == Init \/ InitSum

NextOnce == Classify \/ Relate \/ Aggregate

SpecRules == InitRules /\ [][NextOnce]_vars

\* the buckets after the relation loop over the rule list rearranged by p
AfterReordered(p) ==
    RelateIn(kind, ClassifyAll(kind, NewLocals, metrics, status, GlobalLists(kind), 1),
             metrics, status, Reordered(kind, p), 1)

\* C27: after relation evaluation each bucket holds the same set of compound
\* ids for every permutation of the rule list, and a relation loop that
\* raises in the declared order raises in every order
C27_RuleOrderIndependent ==
    \A p \in Permutations(1..Len(RelationsOf(kind))) :
        /\ pc = "aggregate" =>
              /\ AfterReordered(p).fault = ""
              /\ BucketIds(AfterReordered(p)) = BucketIds(Locals)
        /\ (pc = "done" /\ summary.fault # ""
            /\ ClassifyAll(kind, NewLocals, metrics, status, GlobalLists(kind), 1).fault = "")
              => AfterReordered(p).fault = summary.fault

\* two rules have acted on the same compound id: the subset-total rule has
\* moved the flagged total, the sum check has warned about it
C27_Witness ==
    /\ pc = "aggregate"
    /\ "total_ftes_end_of_report_year" \in Ids(recommended_but_missing_lines)
    /\ "total_ftes_end_of_report_year" \in Ids(warning_lines)

\* the completion percentages of the Summary built from the locals L
CompletionFigures(k, L, g) ==
    IF k = "company"
    THEN << TierPercent(g.minimum, Ids(L.missing_metrics) \cup Ids(L.error_lines)),
            TierPercent(g.intermediate, Ids(L.missing_metrics) \cup Ids(L.error_lines)),
            TierPercent(g.full, Ids(L.missing_metrics) \cup Ids(L.error_lines)) >>
    ELSE << PercentageCompletion(L.valid_lines, L.tiers.required) >>

NoHigher(after, before) == \A n \in 1..Len(after) : after[n] <= before[n]

\* the locals as the classification loop left them
AfterClassification == ClassifyAll(kind, NewLocals, metrics, status, GlobalLists(kind), 1)

\* one rule: missing, error and recommended_but_missing keep their ids,
\* valid and blank gain none
MonotoneStep ==
    /\ Ids(missing_metrics) \subseteq Ids(missing_metrics')
    /\ Ids(error_lines) \subseteq Ids(error_lines')
    /\ Ids(recommended_but_missing_lines) \subseteq Ids(recommended_but_missing_lines')
    /\ Ids(valid_lines') \subseteq Ids(valid_lines)
    /\ Ids(blank_lines') \subseteq Ids(blank_lines)

\* C28 as stated: every rule of every report type keeps the ids of missing,
\* error and recommended_but_missing and adds none to valid and blank, and
\* after the last rule no completion percentage is higher than the one the
\* classification result gives
C28_MonotoneAllKinds ==
    [][pc = "relate" =>
          /\ MonotoneStep
          /\ pc' = "aggregate" =>
                NoHigher(CompletionFigures(kind, Locals', glob'),
                         CompletionFigures(kind, AfterClassification, glob))]_vars

\* C28: every rule of every report type keeps the ids of missing, error and
\* recommended_but_missing and adds none to valid and blank, and after the
\* last rule no company tier percentage is higher than the one the
\* classification result gives
C28_MonotoneReclassification ==
    [][pc = "relate" =>
          /\ MonotoneStep
          /\ (kind = "company" /\ pc' = "aggregate") =>
                NoHigher(CompletionFigures(kind, Locals', glob'),
                         CompletionFigures(kind, AfterClassification, glob))]_vars

\* the rules of a company call have moved records and lowered a percentage
C28_Witness ==
    /\ pc = "aggregate"
    /\ kind = "company"
    /\ Ids(valid_lines) # Ids(AfterClassification.valid_lines)
    /\ Ids(error_lines) # Ids(AfterClassification.error_lines)
    /\ CompletionFigures(kind, Locals, glob) # CompletionFigures(kind, AfterClassification, glob)

\* C29: in the Summary of every report type valid_lines is the number of
\* records in the valid bucket and invalid_lines is the number of records in
\* the error bucket plus the number of records in the missing bucket
C29_CountsAgree ==
    (pc = "done" /\ summary.returned) =>
        /\ summary.valid_lines = Len(valid_lines)
        /\ summary.valid_lines = Len(summary.correct_lines)
        /\ summary.invalid_lines = Len(error_lines) + Len(missing_metrics)
        /\ summary.invalid_lines
              = Len(summary.error_lines) + Len(summary.missing_metrics)

(***************************************************************************)
(* Company datasets with a schema failure or an unrecognised status code   *)
(* behind metrics of another tier                                          *)
(***************************************************************************)
LevelRows ==
    [currency : {Provided(Eur)},
     total_ftes_end_of_report_year : {Absent, Provided(<<"2", "0">>)},
     number_of_ftes_end_of_report_year_female :
        {Absent, Provided(<<"5">>), Provided(<<"x">>), Row(<<"5">>, "n/a")},
     number_of_ftes_end_of_report_year_male : {Absent},
     tobacco_activities : {Absent, Provided(No)},
     percentage_turnover_tobacco_activities :
        {Absent, Provided(<<"5">>), Provided(<<"x">>), Row(<<"5">>, "n/a")},
     sustainability_responsibility_none : {Absent},
     sustainability_responsibility_cfo :
        {Absent, Provided(Yes), Provided(Maybe), Row(Yes, "n/a")},
     gross_revenue :
        {Absent, Provided(<<"1", "0", "0", ".", "5">>), Provided(<<"a", "b", "c">>),
         Row(<<"1", "0", "0", ".", "5">>, "n/a")}]

InitLevel == \E rows \in LevelRows : Start("company", rows, 1, <<>>)

SpecLevel == InitLevel /\ [][NextOnce]_vars

\* the tier the static lists give the id, under either wording for an
\* optional id
OwnLevels(id) ==
    {StaticLevel(GlobalLists("company"), id, "Value not required"),
     StaticLevel(GlobalLists("company"), id, "Value not required (optional)")}

\* the error records written for an unrecognised status code
UnknownStatusRecords ==
    {n \in 1..Len(error_lines) :
        error_lines[n].note.text = "Unknown value in 'STATUS' column: {status}."}

\* C30: in the company classifier every error record that carries a
\* requirement_level carries the tier that the static tier lists give its
\* own compound_id, whichever metrics were processed before it
C30_OwnRequirementLevel ==
    kind = "company" =>
        \A n \in 1..Len(error_lines) :
            "requirement_level" \in error_lines[n].keys =>
                error_lines[n].requirement_level \in OwnLevels(error_lines[n].compound_id)

====
